---- MODULE Spec2Model ----
(***************************************************************************)
(* Model of the conversation stores (backend/app/memory_store.py,          *)
(* sqlite_store.py, neon_store.py) and of the chat turn orchestrator       *)
(* (backend/app/chat.py, TraccarAssistantServer.respond).                  *)
(* Further: the traccar client (traccar.py), the tools show_html and       *)
(* forward_to_real_agent (chat.py), and the start-up of the Postgres       *)
(* store, _get_pool and _ensure_schema, with coroutines interleaved at     *)
(* their awaits (neon_store.py).                                           *)
(*                                                                         *)
(* The SQL database is two tables kept as sequences of rows in rowid       *)
(* order.  The connections are opened with sqlite3.connect and no          *)
(* "PRAGMA foreign_keys = ON" is ever executed, so SQLite does not enforce *)
(* the FOREIGN KEY ... ON DELETE CASCADE clause of thread_items.           *)
(* The created_at / updated_at columns of threads are written but never    *)
(* read by any query, so the thread row keeps only id, user_id and data.   *)
(***************************************************************************)
EXTENDS Integers, Sequences, FiniteSets, TLC

\* ------------------------------------------------------------------ bounds
MaxLimit == 2
MaxOps == 3
MaxTurns == 2
MaxEvents == 2
MaxBlocks == 2
MaxToolCalls == 2
MaxNeonOps == 2

ThreadIds == {"t1", "t2"}
ItemIds == {"i1", "i2"}
Times == 1..2
Limits == 1..MaxLimit

\* Python's None: for identifiers (an absent `after` cursor) and for strings.
NoId == "none"
None == "None"

Users == {"u1", "u2"}
RespIds == {"r1", "r2"}
Variants == {"memory", "sqlite", "neon"}
Orders == {"asc", "desc"}
ItemTypes == {"user_message", "client_tool_call", "assistant_message"}
\* A content part of a user message: its text attribute, a string kept as
\* the sequence of its characters, or no such attribute.
TextPart(text) == [has_text |-> TRUE, text |-> text]
NoTextPart == [has_text |-> FALSE, text |-> <<>>]
Contents == {<<TextPart(<<"a">>)>>}
\* What the request-scoped context leads the session lookup to: no request
\* in the context, an upstream HTTP error, an empty session body, a session
\* without an email, or a session carrying an email.
Contexts == {"no_request", "http_error", "no_session", "no_email"} \cup Users

\* ------------------------------------------------------------------ values
\* ThreadMetadata: id, created_at and the free-form metadata map, here the
\* key previous_response_id and one other key ("note").
Metadatas == [previous_response_id : RespIds \cup {None}, note : {None, "n"}]
EmptyMetadata == [previous_response_id |-> None, note |-> None]
ThreadMetadata(id, created_at, metadata) ==
    [id |-> id, created_at |-> created_at, metadata |-> metadata]
NoThread == ThreadMetadata(NoId, 0, EmptyMetadata)

ThreadItem(id, type, content, created_at) ==
    [id |-> id, type |-> type, content |-> content, created_at |-> created_at]
NoItem == ThreadItem(NoId, None, <<>>, 0)

Page(data, has_more, after) == [data |-> data, has_more |-> has_more, after |-> after]
EmptyPage == Page(<<>>, FALSE, NoId)

\* memory_store's _ThreadState; an absent dictionary entry is NoState.
ThreadState(thread, items) == [thread |-> thread, items |-> items]
NoState == ThreadState(NoThread, <<>>)

\* ------------------------------------------------------------------ state
VARIABLES
    variant,       \* which store implementation the process runs
    threads,       \* SQL table threads: rows [id, user_id, data]
    thread_items,  \* SQL table thread_items: rows [id, thread_id, data, created_at]
    cache,         \* memory_store: self._threads, thread id -> _ThreadState or absent
    initialized,   \* neon_store: self._initialized
    last,          \* the last store call and what it returned
    nops,          \* number of store calls made so far
    run,           \* history: the add_thread_item calls made in a row on one
                   \* thread that was empty, with identifiers new to the store
    thread_item_converter,  \* chat: self._thread_item_converter is not None
    turn,          \* chat: the respond() call each request handler is in
    started,       \* number of respond() calls started so far
    cont,          \* history: per thread, the continuation identifier the
                   \* latest end-of-turn save wrote
    http,          \* traccar: the client call made, with the request it sent
    reports,       \* chat: the files in REPORTS_DIR
    tool,          \* chat: the last tool call and what came of it
    neon           \* neon_store: the module's _pool, the database schema and
                   \* the coroutines inside store operations

storeVars == <<variant, threads, thread_items, cache, initialized, last, nops, run>>
turnVars == <<thread_item_converter, turn, started, cont>>
toolVars == <<reports, tool>>
vars == <<variant, threads, thread_items, cache, initialized, last, nops, run,
          thread_item_converter, turn, started, cont, http, reports, tool, neon>>

\* ------------------------------------------------------------------ helpers
Min(a, b) == IF a < b THEN a ELSE b

\* seq[from..to] with Python slice clamping, from and to 1-based inclusive.
Slice(seq, from, to) ==
    IF from > Min(to, Len(seq)) THEN <<>> ELSE SubSeq(seq, from, Min(to, Len(seq)))

\* list.sort(key=created_at, reverse=desc): a stable sort; with reverse=True
\* elements with equal keys still keep their original relative order.
RECURSIVE SortInsert(_, _, _)
SortInsert(sorted, x, desc) ==
    IF sorted = <<>> THEN <<x>>
    ELSE LET h == Head(sorted)
             stays == IF desc THEN h.created_at >= x.created_at
                              ELSE h.created_at <= x.created_at
         IN IF stays THEN <<h>> \o SortInsert(Tail(sorted), x, desc)
                     ELSE <<x>> \o sorted

\* A sort that leaves the rows in the order they were read.
SortByCreatedAt_Unsorted(seq, desc) == seq

RECURSIVE SortByCreatedAt(_, _)
SortByCreatedAt(seq, desc) ==
    IF seq = <<>> THEN <<>>
    ELSE SortInsert(SortByCreatedAt(SubSeq(seq, 1, Len(seq) - 1), desc),
                    seq[Len(seq)], desc)

\* A cursor lookup whose default for a missing identifier is the last index.
IndexMapGet_MissingIsLast(xs, after) ==
    LET hits == {i \in 1..Len(xs) : xs[i].id = after}
    IN IF hits = {} THEN Len(xs) - 1 ELSE (CHOOSE i \in hits : \A j \in hits : j <= i) - 1

\* index_map = {x.id: idx for idx, x in enumerate(xs)}; index_map.get(after, -1):
\* the 0-based index of the last element with that id, -1 if there is none.
IndexMapGet(xs, after) ==
    LET hits == {i \in 1..Len(xs) : xs[i].id = after}
    IN IF hits = {} THEN -1 ELSE (CHOOSE i \in hits : \A j \in hits : j <= i) - 1

\* A pagination tail that starts at the cursor's element instead of after it.
Paginate_FromCursor(xs, after, limit) ==
    LET start == IF after # NoId /\ IndexMapGet(xs, after) >= 0
                 THEN IndexMapGet(xs, after) ELSE 0
        slice == Slice(xs, start + 1, start + limit + 1)
        has_more == Len(slice) > limit
        data == Slice(slice, 1, limit)
        next_after == IF has_more /\ data # <<>> THEN data[Len(data)].id ELSE NoId
    IN Page(data, has_more, next_after)

\* The pagination tail shared by load_threads and load_thread_items.
Paginate(xs, after, limit) ==
    LET start == IF after # NoId THEN IndexMapGet(xs, after) + 1 ELSE 0
        slice == Slice(xs, start + 1, start + limit + 1)
        has_more == Len(slice) > limit
        data == Slice(slice, 1, limit)
        next_after == IF has_more /\ data # <<>> THEN data[Len(data)].id ELSE NoId
    IN Page(data, has_more, next_after)

\* ------------------------------------------------------------------ SQL
\* INSERT OR IGNORE: a row whose primary key is taken is dropped.
InsertOrReplace_Ignore(table, row) ==
    IF \E i \in 1..Len(table) : table[i].id = row.id THEN table ELSE Append(table, row)

\* INSERT OR REPLACE (SQLite): a row with the same primary key is deleted and
\* the new row is inserted with a fresh rowid, every column replaced.
InsertOrReplace(table, row) ==
    Append(SelectSeq(table, LAMBDA r : r.id # row.id), row)

\* DELETE FROM table WHERE id = ?
DeleteById(table, id) == SelectSeq(table, LAMBDA r : r.id # id)

\* INSERT INTO threads ... ON CONFLICT (id) DO UPDATE SET user_id, data,
\* updated_at (Postgres): the existing row is updated where it is.
UpsertThread(table, row) ==
    IF \E i \in 1..Len(table) : table[i].id = row.id
    THEN [i \in 1..Len(table) |->
            IF table[i].id = row.id
            THEN [table[i] EXCEPT !.user_id = row.user_id, !.data = row.data]
            ELSE table[i]]
    ELSE Append(table, row)

\* INSERT INTO thread_items ... ON CONFLICT (id) DO UPDATE SET data,
\* created_at (Postgres): thread_id is not among the updated columns.
UpsertItem(table, row) ==
    IF \E i \in 1..Len(table) : table[i].id = row.id
    THEN [i \in 1..Len(table) |->
            IF table[i].id = row.id
            THEN [table[i] EXCEPT !.data = row.data, !.created_at = row.created_at]
            ELSE table[i]]
    ELSE Append(table, row)

ThreadRow(thread, user_email) ==
    [id |-> thread.id, user_id |-> user_email, data |-> thread]
ItemRow(thread_id, item) ==
    [id |-> item.id, thread_id |-> thread_id, data |-> item,
     created_at |-> item.created_at]

RowData(rows) == [i \in 1..Len(rows) |-> rows[i].data]

\* A query with no WHERE clause on the thread.
SelectItems_AnyThread(thread_id) == RowData(SortByCreatedAt(thread_items, FALSE))

\* SELECT data FROM thread_items WHERE thread_id = ? ORDER BY created_at
SelectItems(thread_id) ==
    RowData(SortByCreatedAt(
        SelectSeq(thread_items, LAMBDA r : r.thread_id = thread_id), FALSE))

\* A query with no WHERE clause on the owner.
SelectThreadsOfUser_Everyone(user_email) == RowData(threads)

\* SELECT id, data FROM threads WHERE user_id = ?
SelectThreadsOfUser(user_email) ==
    RowData(SelectSeq(threads, LAMBDA r : r.user_id = user_email))

\* SELECT id, data FROM threads
SelectAllThreads == RowData(threads)

\* A lookup that hands on what went wrong instead of None.
GetUserEmail_Unabsorbed(ctx) == ctx

\* _get_user_email_from_traccar: None without a request, on any exception of
\* the session call, on an empty session, and when the session has no email.
GetUserEmail(ctx) ==
    CASE ctx = "no_request" -> None
      [] ctx = "http_error" -> None
      [] ctx = "no_session" -> None
      [] ctx = "no_email" -> None
      [] OTHER -> ctx

\* ------------------------------------------------------------------ calls
\* SELECT data FROM threads WHERE id = ?
SelectThread(thread_id) == SelectSeq(threads, LAMBDA r : r.id = thread_id)

\* The record of one store call: its arguments and its outcome.
Call(op, tid, item, after, limit, order, ctx) ==
    [op |-> op, tid |-> tid, item |-> item, after |-> after, limit |-> limit,
     order |-> order, ctx |-> ctx, err |-> "ok", thread |-> NoThread,
     page |-> EmptyPage, found |-> NoItem,
     \* history only: the thread had a row when the call was made; the call
     \* repeats the add before it; the call is the first after a restart
     stored |-> (SelectThread(tid) # <<>>), again |-> FALSE, fresh |-> FALSE]
NoCall == [Call("init", NoId, NoItem, NoId, 0, "asc", "no_request") EXCEPT !.stored = FALSE]

\* The items and threads the store calls are made with.
Items == {ThreadItem(id, "user_message", content, created_at) :
            id \in ItemIds, content \in Contents, created_at \in Times}
ThreadObjects == {ThreadMetadata(id, created_at, m) :
            id \in ThreadIds, created_at \in Times,
            m \in {EmptyMetadata}}

Cached(thread_id) == cache[thread_id] # NoState

\* Postgres enforces the foreign key of thread_items: inserting a new row
\* whose thread_id names no threads row fails (ForeignKeyViolation) and the
\* statement changes nothing; the ON CONFLICT update leaves thread_id alone.
ForeignKeyViolated(thread_id, item) ==
    /\ \A i \in 1..Len(thread_items) : thread_items[i].id # item.id
    /\ SelectThread(thread_id) = <<>>

\* History only: the items load_thread_items lists for the thread now, and
\* whether an identifier is in use anywhere in the store.
ListedItems(thread_id) ==
    IF variant = "memory" THEN cache[thread_id].items ELSE SelectItems(thread_id)
IdInUse(item_id) ==
    \/ \E i \in 1..Len(thread_items) : thread_items[i].id = item_id
    \/ \E t \in ThreadIds : \E i \in 1..Len(cache[t].items) : cache[t].items[i].id = item_id
NoRun == [tid |-> NoId, items |-> {}]
RunAfterAdd(thread_id, item) ==
    IF /\ ~IdInUse(item.id)
       /\ ~(variant = "neon" /\ ForeignKeyViolated(thread_id, item))
       /\ run.tid = thread_id \/ ListedItems(thread_id) = <<>>
    THEN [tid |-> thread_id,
          items |-> (IF run.tid = thread_id THEN run.items ELSE {}) \cup {item}]
    ELSE NoRun

CanCall == nops < MaxOps
Count == nops' = nops + 1

\* History only: the call being made is the first one after a restart.
AfterRestart == last.op = "restart"

\* The same item identifier was added to the same thread by the call before.
AddedAgain(tid, item) ==
    /\ last.op = "add_thread_item"
    /\ last.err = "ok"
    /\ last.tid = tid
    /\ last.item.id = item.id

\* A connection on which PRAGMA foreign_keys = ON was executed.
ForeignKeys_On == TRUE

\* sqlite3.connect(self.db_path) and nothing more: SQLite leaves foreign key
\* enforcement off on a new connection.
ForeignKeys == FALSE

\* The thread_items table after INSERT OR REPLACE INTO threads of a row with
\* this id: REPLACE deletes the row it conflicts with, and with foreign keys
\* enforced that delete cascades to the items of the thread.
ItemsAfterReplace(thread_id) ==
    IF ForeignKeys /\ SelectThread(thread_id) # <<>>
    THEN SelectSeq(thread_items, LAMBDA r : r.thread_id # thread_id)
    ELSE thread_items

\* ------------------------------------------------------------------ sqlite_store
Sql_load_thread_result(thread_id) ==
    IF SelectThread(thread_id) = <<>>
    THEN [Call("load_thread", thread_id, NoItem, NoId, 0, "asc", "no_request")
            EXCEPT !.err = "NotFound"]
    ELSE [Call("load_thread", thread_id, NoItem, NoId, 0, "asc", "no_request")
            EXCEPT !.thread = SelectThread(thread_id)[1].data]

Sql_load_thread(thread_id) ==
    /\ variant = "sqlite" /\ CanCall /\ Count
    /\ last' = Sql_load_thread_result(thread_id)
    /\ UNCHANGED <<variant, threads, thread_items, cache, initialized, run>>
    /\ UNCHANGED <<turnVars, http, toolVars, neon>>

Sql_save_thread(thread, ctx) ==
    /\ variant = "sqlite" /\ CanCall /\ Count
    /\ threads' = InsertOrReplace(threads, ThreadRow(thread, GetUserEmail(ctx)))
    /\ thread_items' = ItemsAfterReplace(thread.id)
    /\ last' = [Call("save_thread", thread.id, NoItem, NoId, 0, "asc", ctx)
                  EXCEPT !.thread = thread]
    /\ UNCHANGED <<variant, cache, initialized>>
    /\ run' = NoRun
    /\ UNCHANGED <<turnVars, http, toolVars, neon>>

Sql_load_threads_page(limit, after, order, ctx) ==
    IF GetUserEmail(ctx) = None
    THEN EmptyPage
    ELSE Paginate(SortByCreatedAt(SelectThreadsOfUser(GetUserEmail(ctx)), order = "desc"),
                  after, limit)

Sql_load_threads(limit, after, order, ctx) ==
    /\ variant = "sqlite" /\ CanCall /\ Count
    /\ last' = [Call("load_threads", NoId, NoItem, after, limit, order, ctx)
                  EXCEPT !.page = Sql_load_threads_page(limit, after, order, ctx)]
    /\ UNCHANGED <<variant, threads, thread_items, cache, initialized, run>>
    /\ UNCHANGED <<turnVars, http, toolVars, neon>>

Sql_delete_thread(thread_id) ==
    /\ variant = "sqlite" /\ CanCall /\ Count
    /\ threads' = DeleteById(threads, thread_id)
    /\ last' = Call("delete_thread", thread_id, NoItem, NoId, 0, "asc", "no_request")
    /\ UNCHANGED <<variant, thread_items, cache, initialized>>
    /\ run' = NoRun
    /\ UNCHANGED <<turnVars, http, toolVars, neon>>

Sql_load_thread_items_page(thread_id, after, limit, order) ==
    Paginate(SortByCreatedAt(SelectItems(thread_id), order = "desc"), after, limit)

Sql_load_thread_items(thread_id, after, limit, order) ==
    /\ variant = "sqlite" /\ CanCall /\ Count
    /\ last' = [Call("load_thread_items", thread_id, NoItem, after, limit, order, "no_request")
                  EXCEPT !.page = Sql_load_thread_items_page(thread_id, after, limit, order)]
    /\ UNCHANGED <<variant, threads, thread_items, cache, initialized, run>>
    /\ UNCHANGED <<turnVars, http, toolVars, neon>>

Sql_add_thread_item(thread_id, item) ==
    /\ variant = "sqlite" /\ CanCall /\ Count
    /\ thread_items' = InsertOrReplace(thread_items, ItemRow(thread_id, item))
    /\ last' = [Call("add_thread_item", thread_id, item, NoId, 0, "asc", "no_request")
                  EXCEPT !.again = AddedAgain(thread_id, item)]
    /\ UNCHANGED <<variant, threads, cache, initialized>>
    /\ run' = RunAfterAdd(thread_id, item)
    /\ UNCHANGED <<turnVars, http, toolVars, neon>>

Sql_save_item(thread_id, item) ==
    /\ variant = "sqlite" /\ CanCall /\ Count
    /\ thread_items' = InsertOrReplace(thread_items, ItemRow(thread_id, item))
    /\ last' = Call("save_item", thread_id, item, NoId, 0, "asc", "no_request")
    /\ UNCHANGED <<variant, threads, cache, initialized>>
    /\ run' = NoRun
    /\ UNCHANGED <<turnVars, http, toolVars, neon>>

\* The first item of `items` whose id is item_id, NoItem if there is none.
FirstWithId(items, item_id) ==
    LET hits == {i \in 1..Len(items) : items[i].id = item_id}
    IN IF hits = {} THEN NoItem ELSE items[CHOOSE i \in hits : \A j \in hits : i <= j]

LoadItemResult(thread_id, item_id, items) ==
    IF FirstWithId(items, item_id) = NoItem
    THEN [Call("load_item", thread_id, ThreadItem(item_id, None, <<>>, 0), NoId, 0,
               "asc", "no_request") EXCEPT !.err = "NotFound"]
    ELSE [Call("load_item", thread_id, ThreadItem(item_id, None, <<>>, 0), NoId, 0,
               "asc", "no_request") EXCEPT !.found = FirstWithId(items, item_id)]

Sql_load_item(thread_id, item_id) ==
    /\ variant = "sqlite" /\ CanCall /\ Count
    /\ last' = LoadItemResult(thread_id, item_id, SelectItems(thread_id))
    /\ UNCHANGED <<variant, threads, thread_items, cache, initialized, run>>
    /\ UNCHANGED <<turnVars, http, toolVars, neon>>

Sql_delete_thread_item(thread_id, item_id) ==
    /\ variant = "sqlite" /\ CanCall /\ Count
    /\ thread_items' = DeleteById(thread_items, item_id)
    /\ last' = Call("delete_thread_item", thread_id, ThreadItem(item_id, None, <<>>, 0),
                    NoId, 0, "asc", "no_request")
    /\ UNCHANGED <<variant, threads, cache, initialized>>
    /\ run' = NoRun
    /\ UNCHANGED <<turnVars, http, toolVars, neon>>

\* ------------------------------------------------------------------ neon_store
\* Every operation first awaits _ensure_schema, which leaves _initialized set.
Neon_load_thread_result(thread_id) ==
    IF SelectThread(thread_id) = <<>>
    THEN [Call("load_thread", thread_id, NoItem, NoId, 0, "asc", "no_request")
            EXCEPT !.err = "NotFound"]
    ELSE [Call("load_thread", thread_id, NoItem, NoId, 0, "asc", "no_request")
            EXCEPT !.thread = SelectThread(thread_id)[1].data]

Neon_load_thread(thread_id) ==
    /\ variant = "neon" /\ CanCall /\ Count
    /\ initialized' = TRUE
    /\ last' = Neon_load_thread_result(thread_id)
    /\ UNCHANGED <<variant, threads, thread_items, cache, run>>
    /\ UNCHANGED <<turnVars, http, toolVars, neon>>

Neon_save_thread(thread, ctx) ==
    /\ variant = "neon" /\ CanCall /\ Count
    /\ initialized' = TRUE
    /\ threads' = UpsertThread(threads, ThreadRow(thread, GetUserEmail(ctx)))
    /\ last' = [Call("save_thread", thread.id, NoItem, NoId, 0, "asc", ctx)
                  EXCEPT !.thread = thread]
    /\ UNCHANGED <<variant, thread_items, cache>>
    /\ run' = NoRun
    /\ UNCHANGED <<turnVars, http, toolVars, neon>>

Neon_load_threads_page(limit, after, order, ctx) ==
    IF GetUserEmail(ctx) = None
    THEN EmptyPage
    ELSE Paginate(SortByCreatedAt(SelectThreadsOfUser(GetUserEmail(ctx)), order = "desc"),
                  after, limit)

Neon_load_threads(limit, after, order, ctx) ==
    /\ variant = "neon" /\ CanCall /\ Count
    /\ initialized' = TRUE
    /\ last' = [Call("load_threads", NoId, NoItem, after, limit, order, ctx)
                  EXCEPT !.page = Neon_load_threads_page(limit, after, order, ctx)]
    /\ UNCHANGED <<variant, threads, thread_items, cache, run>>
    /\ UNCHANGED <<turnVars, http, toolVars, neon>>

\* DELETE FROM thread_items WHERE thread_id = ?; DELETE FROM threads WHERE id = ?
Neon_delete_thread(thread_id) ==
    /\ variant = "neon" /\ CanCall /\ Count
    /\ initialized' = TRUE
    /\ thread_items' = SelectSeq(thread_items, LAMBDA r : r.thread_id # thread_id)
    /\ threads' = DeleteById(threads, thread_id)
    /\ last' = Call("delete_thread", thread_id, NoItem, NoId, 0, "asc", "no_request")
    /\ UNCHANGED <<variant, cache>>
    /\ run' = NoRun
    /\ UNCHANGED <<turnVars, http, toolVars, neon>>

Neon_load_thread_items_page(thread_id, after, limit, order) ==
    Paginate(SortByCreatedAt(SelectItems(thread_id), order = "desc"), after, limit)

Neon_load_thread_items(thread_id, after, limit, order) ==
    /\ variant = "neon" /\ CanCall /\ Count
    /\ initialized' = TRUE
    /\ last' = [Call("load_thread_items", thread_id, NoItem, after, limit, order, "no_request")
                  EXCEPT !.page = Neon_load_thread_items_page(thread_id, after, limit, order)]
    /\ UNCHANGED <<variant, threads, thread_items, cache, run>>
    /\ UNCHANGED <<turnVars, http, toolVars, neon>>

Neon_add_thread_item(thread_id, item) ==
    /\ variant = "neon" /\ CanCall /\ Count
    /\ initialized' = TRUE
    /\ IF ForeignKeyViolated(thread_id, item)
       THEN /\ thread_items' = thread_items
            /\ last' = [Call("add_thread_item", thread_id, item, NoId, 0, "asc", "no_request")
                          EXCEPT !.err = "IntegrityError"]
       ELSE /\ thread_items' = UpsertItem(thread_items, ItemRow(thread_id, item))
            /\ last' = [Call("add_thread_item", thread_id, item, NoId, 0, "asc", "no_request")
                          EXCEPT !.again = AddedAgain(thread_id, item)]
    /\ UNCHANGED <<variant, threads, cache>>
    /\ run' = RunAfterAdd(thread_id, item)
    /\ UNCHANGED <<turnVars, http, toolVars, neon>>

\* save_item awaits add_thread_item.
Neon_save_item(thread_id, item) ==
    /\ variant = "neon" /\ CanCall /\ Count
    /\ initialized' = TRUE
    /\ IF ForeignKeyViolated(thread_id, item)
       THEN /\ thread_items' = thread_items
            /\ last' = [Call("save_item", thread_id, item, NoId, 0, "asc", "no_request")
                          EXCEPT !.err = "IntegrityError"]
       ELSE /\ thread_items' = UpsertItem(thread_items, ItemRow(thread_id, item))
            /\ last' = Call("save_item", thread_id, item, NoId, 0, "asc", "no_request")
    /\ UNCHANGED <<variant, threads, cache>>
    /\ run' = NoRun
    /\ UNCHANGED <<turnVars, http, toolVars, neon>>

\* SELECT data FROM thread_items WHERE id = ? AND thread_id = ?
Neon_load_item(thread_id, item_id) ==
    /\ variant = "neon" /\ CanCall /\ Count
    /\ initialized' = TRUE
    /\ last' = LoadItemResult(thread_id, item_id,
                  RowData(SelectSeq(thread_items,
                      LAMBDA r : r.id = item_id /\ r.thread_id = thread_id)))
    /\ UNCHANGED <<variant, threads, thread_items, cache, run>>
    /\ UNCHANGED <<turnVars, http, toolVars, neon>>

Neon_delete_thread_item(thread_id, item_id) ==
    /\ variant = "neon" /\ CanCall /\ Count
    /\ initialized' = TRUE
    /\ thread_items' = DeleteById(thread_items, item_id)
    /\ last' = Call("delete_thread_item", thread_id, ThreadItem(item_id, None, <<>>, 0),
                    NoId, 0, "asc", "no_request")
    /\ UNCHANGED <<variant, threads, cache>>
    /\ run' = NoRun
    /\ UNCHANGED <<turnVars, http, toolVars, neon>>

\* ------------------------------------------------------------------ memory_store

\* _load_thread_from_db: None without a threads row, else the row's thread
\* with the thread's items in created_at order.
LoadThreadFromDb(thread_id) ==
    IF SelectThread(thread_id) = <<>>
    THEN NoState
    ELSE ThreadState(SelectThread(thread_id)[1].data, SelectItems(thread_id))

\* _items: on a cache miss an empty _ThreadState is created for the id, with
\* a ThreadMetadata made on the spot (created_at = utcnow()); SQL is not read.
CacheWithItems(thread_id, now) ==
    IF Cached(thread_id)
    THEN cache
    ELSE [cache EXCEPT ![thread_id] =
            ThreadState(ThreadMetadata(thread_id, now, EmptyMetadata), <<>>)]

Mem_load_thread_state(thread_id) ==
    IF Cached(thread_id) THEN cache[thread_id] ELSE LoadThreadFromDb(thread_id)

Mem_load_thread(thread_id) ==
    /\ variant = "memory" /\ CanCall /\ Count
    /\ IF Mem_load_thread_state(thread_id) = NoState
       THEN /\ last' = [Call("load_thread", thread_id, NoItem, NoId, 0, "asc", "no_request")
                          EXCEPT !.err = "NotFound", !.fresh = AfterRestart]
            /\ cache' = cache
       ELSE /\ last' = [Call("load_thread", thread_id, NoItem, NoId, 0, "asc", "no_request")
                          EXCEPT !.thread = Mem_load_thread_state(thread_id).thread,
                                 !.fresh = AfterRestart]
            /\ cache' = [cache EXCEPT ![thread_id] = Mem_load_thread_state(thread_id)]
    /\ UNCHANGED <<variant, threads, thread_items, initialized, run>>
    /\ UNCHANGED <<turnVars, http, toolVars, neon>>

Mem_save_thread(thread) ==
    /\ variant = "memory" /\ CanCall /\ Count
    /\ cache' = [cache EXCEPT ![thread.id] =
                    IF Cached(thread.id)
                    THEN ThreadState(thread, cache[thread.id].items)
                    ELSE ThreadState(thread, <<>>)]
    /\ threads' = InsertOrReplace(threads, ThreadRow(thread, None))
    /\ thread_items' = ItemsAfterReplace(thread.id)
    /\ last' = [Call("save_thread", thread.id, NoItem, NoId, 0, "asc", "no_request")
                  EXCEPT !.thread = thread]
    /\ UNCHANGED <<variant, initialized>>
    /\ run' = NoRun
    /\ UNCHANGED <<turnVars, http, toolVars, neon>>

Mem_load_threads_page(limit, after, order) ==
    Paginate(SortByCreatedAt(SelectAllThreads, order = "desc"), after, limit)

Mem_load_threads(limit, after, order) ==
    /\ variant = "memory" /\ CanCall /\ Count
    /\ last' = [Call("load_threads", NoId, NoItem, after, limit, order, "no_request")
                  EXCEPT !.page = Mem_load_threads_page(limit, after, order)]
    /\ UNCHANGED <<variant, threads, thread_items, cache, initialized, run>>
    /\ UNCHANGED <<turnVars, http, toolVars, neon>>

Mem_delete_thread(thread_id) ==
    /\ variant = "memory" /\ CanCall /\ Count
    /\ cache' = [cache EXCEPT ![thread_id] = NoState]
    /\ threads' = DeleteById(threads, thread_id)
    /\ last' = Call("delete_thread", thread_id, NoItem, NoId, 0, "asc", "no_request")
    /\ UNCHANGED <<variant, thread_items, initialized>>
    /\ run' = NoRun
    /\ UNCHANGED <<turnVars, http, toolVars, neon>>

Mem_load_thread_items_page(items, after, limit, order) ==
    Paginate(SortByCreatedAt(items, order = "desc"), after, limit)

Mem_load_thread_items(thread_id, after, limit, order) ==
    /\ variant = "memory" /\ CanCall /\ Count
    /\ \E now \in Times :
         /\ cache' = CacheWithItems(thread_id, now)
         /\ last' = [Call("load_thread_items", thread_id, NoItem, after, limit, order,
                          "no_request")
                       EXCEPT !.page = Mem_load_thread_items_page(
                                  CacheWithItems(thread_id, now)[thread_id].items,
                                  after, limit, order),
                              !.fresh = AfterRestart]
    /\ UNCHANGED <<variant, threads, thread_items, initialized, run>>
    /\ UNCHANGED <<turnVars, http, toolVars, neon>>

Mem_add_thread_item(thread_id, item) ==
    /\ variant = "memory" /\ CanCall /\ Count
    /\ \E now \in Times :
         cache' = [CacheWithItems(thread_id, now) EXCEPT ![thread_id].items =
                      Append(CacheWithItems(thread_id, now)[thread_id].items, item)]
    /\ thread_items' = InsertOrReplace(thread_items, ItemRow(thread_id, item))
    /\ last' = [Call("add_thread_item", thread_id, item, NoId, 0, "asc", "no_request")
                  EXCEPT !.again = AddedAgain(thread_id, item)]
    /\ UNCHANGED <<variant, threads, initialized>>
    /\ run' = RunAfterAdd(thread_id, item)
    /\ UNCHANGED <<turnVars, http, toolVars, neon>>

\* for idx, existing in enumerate(items): the first item with the id is
\* replaced in the list and the method returns there, before the SQL write.
ReplaceFirst(items, item) ==
    LET first == CHOOSE i \in 1..Len(items) :
                    /\ items[i].id = item.id
                    /\ \A j \in 1..(i - 1) : items[j].id # item.id
    IN [items EXCEPT ![first] = item]

Mem_save_item(thread_id, item) ==
    /\ variant = "memory" /\ CanCall /\ Count
    /\ \E now \in Times :
         LET items == CacheWithItems(thread_id, now)[thread_id].items
         IN IF \E i \in 1..Len(items) : items[i].id = item.id
            THEN /\ cache' = [CacheWithItems(thread_id, now) EXCEPT
                                ![thread_id].items = ReplaceFirst(items, item)]
                 /\ thread_items' = thread_items
            ELSE /\ cache' = [CacheWithItems(thread_id, now) EXCEPT
                                ![thread_id].items = Append(items, item)]
                 /\ thread_items' = InsertOrReplace(thread_items, ItemRow(thread_id, item))
    /\ last' = Call("save_item", thread_id, item, NoId, 0, "asc", "no_request")
    /\ UNCHANGED <<variant, threads, initialized>>
    /\ run' = NoRun
    /\ UNCHANGED <<turnVars, http, toolVars, neon>>

Mem_load_item(thread_id, item_id) ==
    /\ variant = "memory" /\ CanCall /\ Count
    /\ \E now \in Times :
         /\ cache' = CacheWithItems(thread_id, now)
         /\ last' = [LoadItemResult(thread_id, item_id,
                                    CacheWithItems(thread_id, now)[thread_id].items)
                       EXCEPT !.fresh = AfterRestart]
    /\ UNCHANGED <<variant, threads, thread_items, initialized, run>>
    /\ UNCHANGED <<turnVars, http, toolVars, neon>>

Mem_delete_thread_item(thread_id, item_id) ==
    /\ variant = "memory" /\ CanCall /\ Count
    /\ \E now \in Times :
         cache' = [CacheWithItems(thread_id, now) EXCEPT ![thread_id].items =
                      SelectSeq(CacheWithItems(thread_id, now)[thread_id].items,
                                LAMBDA it : it.id # item_id)]
    /\ thread_items' = DeleteById(thread_items, item_id)
    /\ last' = Call("delete_thread_item", thread_id, ThreadItem(item_id, None, <<>>, 0),
                    NoId, 0, "asc", "no_request")
    /\ UNCHANGED <<variant, threads, initialized>>
    /\ run' = NoRun
    /\ UNCHANGED <<turnVars, http, toolVars, neon>>

\* The process restarts: __init__ runs again on the same database file,
\* _init_db finds the tables (CREATE TABLE IF NOT EXISTS) and the cache
\* starts empty.
Mem_restart ==
    /\ variant = "memory" /\ CanCall /\ Count
    /\ cache # [t \in ThreadIds |-> NoState]
    /\ cache' = [t \in ThreadIds |-> NoState]
    /\ last' = Call("restart", NoId, NoItem, NoId, 0, "asc", "no_request")
    /\ UNCHANGED <<variant, threads, thread_items, initialized>>
    /\ run' = NoRun
    /\ UNCHANGED <<turnVars, http, toolVars, neon>>

\* ------------------------------------------------------------------ attachments
AttachmentIds == {"a1"}

\* A store that takes the attachment call and returns.
AttachmentError_Accepted(store, op) == "ok"

\* save_attachment, load_attachment and delete_attachment of the three
\* stores: the body is a single raise NotImplementedError.
AttachmentError(store, op) == "NotImplementedError"

\* The attachment call `op` on the store `store`: nothing is read or written
\* (the Postgres store does not even reach _ensure_schema).
AttachmentCall(store, op, attachment_id) ==
    /\ variant = store /\ CanCall /\ Count
    /\ last' = [Call(op, NoId, ThreadItem(attachment_id, None, <<>>, 0), NoId, 0,
                     "asc", "no_request")
                  EXCEPT !.err = AttachmentError(store, op)]
    /\ UNCHANGED <<variant, threads, thread_items, cache, initialized, run>>
    /\ UNCHANGED <<turnVars, http, toolVars, neon>>

Sql_save_attachment(attachment_id) == AttachmentCall("sqlite", "save_attachment", attachment_id)
Sql_load_attachment(attachment_id) == AttachmentCall("sqlite", "load_attachment", attachment_id)
Sql_delete_attachment(attachment_id) == AttachmentCall("sqlite", "delete_attachment", attachment_id)
Neon_save_attachment(attachment_id) == AttachmentCall("neon", "save_attachment", attachment_id)
Neon_load_attachment(attachment_id) == AttachmentCall("neon", "load_attachment", attachment_id)
Neon_delete_attachment(attachment_id) == AttachmentCall("neon", "delete_attachment", attachment_id)
Mem_save_attachment(attachment_id) == AttachmentCall("memory", "save_attachment", attachment_id)
Mem_load_attachment(attachment_id) == AttachmentCall("memory", "load_attachment", attachment_id)
Mem_delete_attachment(attachment_id) == AttachmentCall("memory", "delete_attachment", attachment_id)

\* ------------------------------------------------------------------ traccar
\* Text is a sequence of pieces, so that startswith, concatenation and
\* formatting are computed; numbers in JSON bodies and query strings are
\* written as their decimal text.  A header map is a function whose domain
\* is the set of headers that are present.
StartsWith(text, prefix) ==
    /\ Len(prefix) <= Len(text)
    /\ SubSeq(text, 1, Len(prefix)) = prefix

\* fleetmap_origins of _get_traccar_url
FleetmapOrigins ==
    <<"https://moviflotte.com", "https://localizalia.net",
      "https://web.fleetrack.cl", "https://nogartel.fleetmap.io">>

\* The Origin headers requests arrive with: a product domain, another
\* domain, either one followed by a port or by more host name, the empty text.
OriginDomains ==
    {FleetmapOrigins[i] : i \in 1..Len(FleetmapOrigins)}
        \cup {"https://fleetmap.io", "https://plataforma.ubisat.cl", "https://example.com"}
Origins ==
    {<<d>> : d \in OriginDomains}
        \cup {<<d, x>> : d \in OriginDomains, x \in {":8443", ".example.org"}}
        \cup {<<>>}
Cookies == {<<"JSESSIONID=", "other">>}
FleetSessions == {<<"abc123">>, <<"null">>}
HeaderNames == {"origin", "cookie", "x-fleet-session"}
RequestHeaders ==
    {[n \in S |-> CASE n = "origin" -> o [] n = "cookie" -> c [] OTHER -> f] :
        S \in SUBSET HeaderNames, o \in Origins, c \in Cookies, f \in FleetSessions}

\* The inbound request handed to the client: None, or an object with headers.
NoRequest == [present |-> FALSE, headers |-> <<>>]
Requests == {NoRequest} \cup {[present |-> TRUE, headers |-> h] : h \in RequestHeaders}

\* _get_traccar_url
GetTraccarUrl(request) ==
    IF /\ request.present
       /\ "origin" \in DOMAIN request.headers
       /\ request.headers["origin"] # <<>>
       /\ \E i \in 1..Len(FleetmapOrigins) :
              StartsWith(request.headers["origin"], <<FleetmapOrigins[i]>>)
    THEN "http://gps.fleetmap.pt"
    ELSE "http://gps.frotaweb.com"

\* The outbound headers of get, put and post: Cookie is the inbound cookie
\* header; requests drops a header whose value is None.
OutboundHeaders(request, with_content_type) ==
    LET has_cookie == request.present /\ "cookie" \in DOMAIN request.headers
        names == {"Accept"} \cup (IF has_cookie THEN {"Cookie"} ELSE {})
                    \cup (IF with_content_type THEN {"Content-Type"} ELSE {})
    IN [n \in names |->
            IF n = "Cookie" THEN request.headers["cookie"] ELSE <<"application/json">>]

\* f"{_get_traccar_url(request).rstrip('/')}/{path.lstrip('/')}"
Url(request, path) == <<GetTraccarUrl(request), "/">> \o path

\* ---- _format_date
\* A datetime of one month: its fields, whether it has a tzinfo and the
\* offset of that tzinfo in minutes (0 when it has none).  The days are
\* chosen so that the conversion to UTC stays within the month.
DateTimes ==
    {v \in [kind : {"datetime"}, year : {2024}, month : {3}, day : {10, 11},
            hour : {0, 12, 23}, minute : {0, 30}, second : {0, 59},
            microsecond : {0, 1}, aware : BOOLEAN, offset : {-300, 0, 60, 330}] :
        ~v.aware => v.offset = 0}
\* Values that are not datetimes.
OtherValues == {[kind |-> "str", text |-> <<"n", "o", "w">>],
                [kind |-> "int", text |-> <<"5">>]}

\* value.astimezone(timezone.utc)
AsUtc(value) ==
    LET total == value.day * 1440 + value.hour * 60 + value.minute - value.offset
    IN [value EXCEPT !.day = total \div 1440, !.hour = (total % 1440) \div 60,
                     !.minute = total % 60, !.offset = 0]

Digit(n) == <<"0", "1", "2", "3", "4", "5", "6", "7", "8", "9">>[n + 1]
Pad2(n) == <<Digit(n \div 10), Digit(n % 10)>>
Pad4(n) == <<Digit(n \div 1000), Digit((n \div 100) % 10), Digit((n \div 10) % 10), Digit(n % 10)>>

\* strftime('%Y-%m-%dT%H:%M:%SZ')
Strftime(value) ==
    Pad4(value.year) \o <<"-">> \o Pad2(value.month) \o <<"-">> \o Pad2(value.day)
        \o <<"T">> \o Pad2(value.hour) \o <<":">> \o Pad2(value.minute)
        \o <<":">> \o Pad2(value.second) \o <<"Z">>

\* A formatter that prints the fields as they are, whatever the tzinfo.
FormatDate_Local(value) ==
    IF value.kind = "datetime" THEN [kind |-> "str", text |-> Strftime(value)] ELSE value

\* _format_date
FormatDate(value) ==
    IF value.kind = "datetime"
    THEN [kind |-> "str", text |-> Strftime(IF value.aware THEN AsUtc(value) ELSE value)]
    ELSE value

\* ---- get, put, post
NoneValue == [kind |-> "none"]
DeviceIds == {NoneValue, [kind |-> "int", text |-> <<"5">>]}
\* The dates the report tools pass on: none, a naive one, one with an offset.
DateArgs ==
    {NoneValue,
     [kind |-> "datetime", year |-> 2024, month |-> 3, day |-> 10, hour |-> 23,
      minute |-> 30, second |-> 0, microsecond |-> 0, aware |-> FALSE, offset |-> 0],
     [kind |-> "datetime", year |-> 2024, month |-> 3, day |-> 10, hour |-> 23,
      minute |-> 30, second |-> 0, microsecond |-> 0, aware |-> TRUE, offset |-> -300]}
GeofenceIds == {"7"}
Names == {None, "n1"}
Descriptions == {None, "d1"}
Areas == {None, "POLYGON"}
Statuses == {200, 401}

\* A body builder that writes every field, supplied or not.
GetBody_AllFields(area, description, name, _id) ==
    [k \in {"id", "name", "description", "area"} |->
        CASE k = "id" -> _id [] k = "name" -> name
          [] k = "description" -> description [] OTHER -> area]

\* get_body: "id" always, the other fields when they are not None.
GetBody(area, description, name, _id) ==
    [k \in {"id"} \cup (IF name # None THEN {"name"} ELSE {})
                  \cup (IF description # None THEN {"description"} ELSE {})
                  \cup (IF area # None THEN {"area"} ELSE {}) |->
        CASE k = "id" -> _id [] k = "name" -> name
          [] k = "description" -> description [] OTHER -> area]

\* The request the client sends.
NoOut == [method |-> "none", url |-> <<>>, headers |-> <<>>, params |-> <<>>,
          has_body |-> FALSE, body |-> <<>>]

\* get: the query parameters that are not None, the dates through _format_date.
GetRequest(path, request, device_id, from_date, to_date) ==
    [method |-> "GET", url |-> Url(request, path),
     headers |-> OutboundHeaders(request, FALSE),
     params |-> [k \in (IF device_id # NoneValue THEN {"deviceId"} ELSE {})
                        \cup (IF from_date # NoneValue THEN {"from"} ELSE {})
                        \cup (IF to_date # NoneValue THEN {"to"} ELSE {}) |->
                    CASE k = "deviceId" -> device_id
                      [] k = "from" -> FormatDate(from_date)
                      [] OTHER -> FormatDate(to_date)],
     has_body |-> FALSE, body |-> <<>>]

\* put: body = get_body(area, description, name, id)
PutRequest(path, request, id, name, description, area) ==
    [method |-> "PUT", url |-> Url(request, path),
     headers |-> OutboundHeaders(request, TRUE), params |-> <<>>,
     has_body |-> TRUE, body |-> GetBody(area, description, name, id)]

\* post: body = get_body(area, description, name), _id left at its default 0
PostRequest(path, request, name, description, area) ==
    [method |-> "POST", url |-> Url(request, path),
     headers |-> OutboundHeaders(request, TRUE), params |-> <<>>,
     has_body |-> TRUE, body |-> GetBody(area, description, name, "0")]

\* One client call: what was asked, the request sent, whether
\* raise_for_status raised; for _format_date the value and the result.
HttpCall(op, request, args, out, status) ==
    [op |-> op, request |-> request, args |-> args, out |-> out,
     raised |-> (status >= 400), value |-> NoneValue, result |-> NoneValue]
NoHttp == HttpCall("init", NoRequest, <<>>, NoOut, 200)

traccar_get(path, request, device_id, from_date, to_date, status) ==
    /\ http = NoHttp
    /\ http' = HttpCall("get", request,
                        [device_id |-> device_id, from_date |-> from_date, to_date |-> to_date],
                        GetRequest(path, request, device_id, from_date, to_date), status)
    /\ UNCHANGED <<storeVars, turnVars, toolVars, neon>>

traccar_put(path, request, id, name, description, area, status) ==
    /\ http = NoHttp
    /\ http' = HttpCall("put", request,
                        [id |-> id, name |-> name, description |-> description, area |-> area],
                        PutRequest(path, request, id, name, description, area), status)
    /\ UNCHANGED <<storeVars, turnVars, toolVars, neon>>

traccar_post(path, request, name, description, area, status) ==
    /\ http = NoHttp
    /\ http' = HttpCall("post", request,
                        [name |-> name, description |-> description, area |-> area],
                        PostRequest(path, request, name, description, area), status)
    /\ UNCHANGED <<storeVars, turnVars, toolVars, neon>>

\* The tool update_geofence: put(f"api/geofences/{geofence_id}", request,
\* id=geofence_id, area=area, name=name, description=description)
update_geofence(request, geofence_id, area, name, description, status) ==
    /\ http = NoHttp
    /\ http' = HttpCall("update_geofence", request,
                        [id |-> geofence_id, name |-> name, description |-> description,
                         area |-> area],
                        PutRequest(<<"api/geofences/", geofence_id>>, request, geofence_id,
                                   name, description, area), status)
    /\ UNCHANGED <<storeVars, turnVars, toolVars, neon>>

\* The tool create_geofence: post("api/geofences", request, area=area,
\* name=name, description=description)
create_geofence(request, area, name, description, status) ==
    /\ http = NoHttp
    /\ http' = HttpCall("create_geofence", request,
                        [name |-> name, description |-> description, area |-> area],
                        PostRequest(<<"api/geofences">>, request, name, description, area),
                        status)
    /\ UNCHANGED <<storeVars, turnVars, toolVars, neon>>

\* _format_date applied to one value.
format_date(value) ==
    /\ http = NoHttp
    /\ http' = [HttpCall("format_date", NoRequest, <<>>, NoOut, 200)
                  EXCEPT !.value = value, !.result = FormatDate(value)]
    /\ UNCHANGED <<storeVars, turnVars, toolVars, neon>>


\* ------------------------------------------------------------------ chat
\* The request handlers that may be inside respond() at the same time.
Handlers == {"h1", "h2"}

\* One respond() call: where it is, the thread object and item it was given,
\* the item it settled on, what it passed to Runner.run_streamed, the
\* events the run still has to produce and those already yielded.
NoTurn ==
    [pc |-> "idle", thread |-> NoThread, ctx |-> "no_request", item |-> NoItem,
     target |-> NoItem, invoked |-> FALSE, previous_response_id |-> None,
     pending |-> <<>>, yielded |-> <<>>,
     \* history only: what was passed to Runner.run_streamed, the number of
     \* events the run produces, the identifier this call saved
     input |-> NoneValue, produced |-> 0, saved |-> None,
     \* history only: what the converter returned, if it was asked
     converted |-> NoneValue,
     \* history only: the identifier the latest end-of-turn save had written
     \* for the thread when this call started
     seen |-> None,
     \* history only: the store raised in _latest_thread_item; the newest
     \* item the thread had when the call asked for it; some call on the same
     \* thread was still streaming when this handler started one
     raised |-> FALSE, newest |-> NoItem, overlap |-> FALSE]

\* The item of the thread with the greatest creation time, None if it has none.
MostRecentItem(thread_id) ==
    LET xs == SelectItems(thread_id)
    IN IF xs = <<>> THEN NoItem
       ELSE xs[CHOOSE i \in 1..Len(xs) : \A j \in 1..Len(xs) :
                    xs[j].created_at <= xs[i].created_at]

\* A test that takes no item for a tool completion.
IsToolCompletionItem_Never(item) == FALSE

\* _is_tool_completion_item
IsToolCompletionItem(item) == item.type = "client_tool_call"

\* The texts _user_message_text collects: getattr(part, "text", None) of each
\* part in order, kept if truthy.
RECURSIVE Texts(_)
Texts(content) ==
    IF content = <<>> THEN <<>>
    ELSE (IF Head(content).has_text /\ Head(content).text # <<>>
          THEN <<Head(content).text>> ELSE <<>>) \o Texts(Tail(content))

\* " ".join(parts)
RECURSIVE Join(_)
Join(parts) ==
    IF parts = <<>> THEN <<>>
    ELSE IF Len(parts) = 1 THEN parts[1]
    ELSE parts[1] \o <<" ">> \o Join(Tail(parts))

\* str.strip(), of the space
RECURSIVE LStrip(_)
LStrip(s) == IF s # <<>> /\ Head(s) = " " THEN LStrip(Tail(s)) ELSE s

RECURSIVE RStrip(_)
RStrip(s) == IF s # <<>> /\ s[Len(s)] = " " THEN RStrip(SubSeq(s, 1, Len(s) - 1)) ELSE s

Strip(s) == RStrip(LStrip(s))

\* A text that is joined and left untrimmed.
UserMessageText_Untrimmed(item) == Join(Texts(item.content))

\* _user_message_text of the item: a string, never None.
UserMessageText(item) == Strip(Join(Texts(item.content)))

\* What _to_agent_input returns: None, a string, or what the converter made.
Text(s) == [kind |-> "text", text |-> s]
Converted == [kind |-> "converted"]

\* A lookup that asks for the oldest item instead of the newest.
LatestThreadItem_Oldest(thread, raises) ==
    IF raises THEN NoItem
    ELSE IF Sql_load_thread_items_page(thread.id, NoId, 1, "asc").data = <<>> THEN NoItem
    ELSE Sql_load_thread_items_page(thread.id, NoId, 1, "asc").data[1]

\* _latest_thread_item: load_thread_items(thread.id, None, 1, "desc"); None
\* when the store raises or the page is empty.
LatestThreadItem(thread, raises) ==
    IF raises THEN NoItem
    ELSE IF Sql_load_thread_items_page(thread.id, NoId, 1, "desc").data = <<>> THEN NoItem
    ELSE Sql_load_thread_items_page(thread.id, NoId, 1, "desc").data[1]

\* _to_agent_input: None for a tool completion item; with a converter
\* whatever the converter returns (what it yields is its own business); else
\* the text of a user message, and None for any other item.
ToAgentInput(item, converter, converted) ==
    IF IsToolCompletionItem(item) THEN NoneValue
    ELSE IF converter THEN converted
    ELSE IF item.type = "user_message" THEN Text(UserMessageText(item))
    ELSE NoneValue

\* An update that keeps an identifier the metadata already has.
WithPreviousResponseId_First(metadata, response_identifier) ==
    IF metadata.previous_response_id # None THEN metadata
    ELSE [metadata EXCEPT !.previous_response_id = response_identifier]

\* An update that leaves the metadata as it was.
WithPreviousResponseId_Dropped(metadata, response_identifier) == metadata

\* An update that builds the metadata anew with the identifier alone.
WithPreviousResponseId_Only(metadata, response_identifier) ==
    [EmptyMetadata EXCEPT !.previous_response_id = response_identifier]

\* metadata["previous_response_id"] = response_identifier
WithPreviousResponseId(metadata, response_identifier) ==
    [metadata EXCEPT !.previous_response_id = response_identifier]

\* metadata.get("previous_response_id")
PreviousResponseId(thread) == thread.metadata.previous_response_id

\* The events of a run, numbered in the order the run produces them.
RECURSIVE Events(_)
Events(n) == IF n = 0 THEN <<>> ELSE Append(Events(n - 1), n)

\* respond, up to the call of Runner.run_streamed.  The transport has loaded
\* the thread from the store and hands it over with the new user message,
\* or with no item.
respond_start(h, thread_id, item, ctx, raises, converted, events) ==
    /\ variant = "sqlite"
    /\ turn[h].pc \in {"idle", "ended", "abandoned"}
    /\ started < MaxTurns
    /\ started' = started + 1
    /\ Sql_load_thread_result(thread_id).err = "ok"
    /\ LET thread == Sql_load_thread_result(thread_id).thread
           target == IF item # NoItem THEN item ELSE LatestThreadItem(thread, raises)
           agent_input == ToAgentInput(target, thread_item_converter, converted)
           base == [NoTurn EXCEPT !.thread = thread, !.ctx = ctx, !.item = item,
                                  !.target = target, !.seen = cont[thread_id],
                                  !.raised = (item = NoItem /\ raises),
                                  !.newest = IF item = NoItem
                                             THEN MostRecentItem(thread_id) ELSE NoItem,
                                  !.overlap = \/ turn[h].overlap
                                              \/ \E g \in Handlers \ {h} :
                                                    /\ turn[g].pc = "streaming"
                                                    /\ turn[g].thread.id = thread_id]
       IN turn' = [turn EXCEPT ![h] =
            IF target = NoItem \/ IsToolCompletionItem(target)
            THEN [base EXCEPT !.pc = "ended"]
            ELSE IF agent_input = NoneValue
            THEN [base EXCEPT !.pc = "ended"]
            ELSE [base EXCEPT !.pc = "streaming", !.invoked = TRUE,
                              !.converted = IF thread_item_converter
                                            THEN converted ELSE NoneValue,
                              !.input = agent_input,
                              !.previous_response_id = PreviousResponseId(thread),
                              !.pending = Events(events),
                              !.produced = events]]
    /\ UNCHANGED <<storeVars, thread_item_converter, cont, http, toolVars, neon>>

\* async for event in stream_agent_response(...): yield event
respond_yield(h) ==
    /\ turn[h].pc = "streaming"
    /\ turn[h].pending # <<>>
    /\ turn' = [turn EXCEPT ![h].pending = Tail(@),
                            ![h].yielded = Append(@, Head(turn[h].pending))]
    /\ UNCHANGED <<storeVars, thread_item_converter, started, cont, http, toolVars, neon>>

\* The generator stops inside the loop: the consumer closes it at a yield,
\* or the run raises.  Nothing after the loop runs.
respond_abandon(h) ==
    /\ turn[h].pc = "streaming"
    /\ turn' = [turn EXCEPT ![h].pc = "abandoned"]
    /\ UNCHANGED <<storeVars, thread_item_converter, started, cont, http, toolVars, neon>>

\* A loop that is left while the run still has events to produce.
StreamExhausted_Early(t) == TRUE

\* The async for loop ends when the run has no more events.
StreamExhausted(t) == t.pending = <<>>

\* A test that takes every run for one that exposes an identifier.
ExposesContinuation_Always(response_identifier) == TRUE

\* if response_identifier is not None
ExposesContinuation(response_identifier) == response_identifier # None

\* After the stream: result.last_response_id, and if it is not None the
\* thread's metadata gets it and the thread is saved.
respond_finish(h, response_identifier) ==
    /\ turn[h].pc = "streaming"
    /\ StreamExhausted(turn[h])
    /\ IF ExposesContinuation(response_identifier)
       THEN LET thread == [turn[h].thread EXCEPT !.metadata =
                              WithPreviousResponseId(@, response_identifier)]
            IN /\ threads' = InsertOrReplace(threads,
                                 ThreadRow(thread, GetUserEmail(turn[h].ctx)))
               /\ turn' = [turn EXCEPT ![h].pc = "ended", ![h].thread = thread,
                                       ![h].saved = response_identifier]
               /\ thread_items' = ItemsAfterReplace(thread.id)
               /\ cont' = [cont EXCEPT ![thread.id] = response_identifier]
       ELSE /\ turn' = [turn EXCEPT ![h].pc = "ended"]
            /\ UNCHANGED <<threads, thread_items, cont>>
    /\ UNCHANGED <<variant, cache, initialized, last, nops, run,
                   thread_item_converter, started, http, toolVars, neon>>

\* ------------------------------------------------------------------ tools
\* An HTML document is the sequence of its <script> blocks, each by what a
\* JavaScript parser would make of it.
ScriptBlocks == {"parses", "syntax_error", "empty"}
Htmls == UNION {[1..n -> ScriptBlocks] : n \in 0..MaxBlocks}
Questions == {"q1", "q2"}

\* ClientToolCall(name=..., arguments={"html": html}); None is NoClientToolCall.
ClientToolCall(name, html) == [name |-> name, html |-> html]
NoClientToolCall == ClientToolCall(None, <<>>)

\* What a tool returns: a dictionary with one key, or a string.
Returned(key, value) == [key |-> key, value |-> value]
NoReturn == Returned(None, None)
Confirmation == "Your question has been forwarded to our support team. They will get back to you soon."

\* The message handed to ses.send_email.
Email(user_email, thread_id, question) ==
    [source |-> "support@fleetmap.io", user_email |-> user_email,
     thread_id |-> thread_id, question |-> question]
NoEmail == Email(None, NoId, None)

\* One tool call: its arguments, what the environment did (the reports
\* directory accepted the file, the session lookup, the mail service), and
\* what came of it.
ToolCall(op, thread_id, n) ==
    [op |-> op, thread_id |-> thread_id, n |-> n, html |-> <<>>, writable |-> TRUE,
     ctx |-> "no_request", question |-> None, ses_ok |-> TRUE,
     client_tool_call |-> NoClientToolCall, saved |-> FALSE,
     sent |-> FALSE, email |-> NoEmail, returned |-> NoReturn, raised |-> None]
NoTool == ToolCall("none", NoId, 0)

\* _save_html: a new file html_<thread_id>_<timestamp>_<uuid>.html in
\* REPORTS_DIR, the name unique by its serial.
SaveHtml(files, html, thread_id) ==
    files \cup {[thread_id |-> thread_id, serial |-> Cardinality(files) + 1, html |-> html]}

\* show_html: the file is written, then the client tool call is recorded on
\* the context and {"result": "success"} returned.  Nothing looks at the
\* scripts of the document and nothing catches what open() or write() raise.
show_html(thread_id, html, writable) ==
    /\ tool.n < MaxToolCalls
    /\ IF writable
       THEN /\ reports' = SaveHtml(reports, html, thread_id)
            /\ tool' = [ToolCall("show_html", thread_id, tool.n + 1) EXCEPT
                           !.html = html, !.saved = TRUE,
                           !.client_tool_call = ClientToolCall("show_html", html),
                           !.returned = Returned("result", "success")]
       ELSE /\ UNCHANGED reports
            /\ tool' = [ToolCall("show_html", thread_id, tool.n + 1) EXCEPT
                           !.html = html, !.writable = FALSE, !.raised = "OSError"]
    /\ UNCHANGED <<storeVars, turnVars, http, neon>>

\* session.get("email") if session else "unknown", where session is
\* get("api/session", request) if request else None.  An empty session body
\* is falsy; a session without the key gives None.
SessionEmail(ctx) ==
    CASE ctx \in {"no_request", "no_session"} -> "unknown"
      [] ctx = "no_email" -> None
      [] OTHER -> ctx

\* forward_to_real_agent: get raises on an upstream error status
\* (raise_for_status) and nothing catches it; otherwise the mail is sent and
\* the confirmation returned.
forward_to_real_agent(thread_id, ctx, question, ses_ok) ==
    /\ tool.n < MaxToolCalls
    /\ LET call == [ToolCall("forward_to_real_agent", thread_id, tool.n + 1) EXCEPT
                       !.ctx = ctx, !.question = question, !.ses_ok = ses_ok]
       IN tool' =
            IF ctx = "http_error" THEN [call EXCEPT !.raised = "HTTPError"]
            ELSE IF ~ses_ok THEN [call EXCEPT !.raised = "ClientError"]
            ELSE [call EXCEPT !.sent = TRUE,
                              !.email = Email(SessionEmail(ctx), thread_id, question),
                              !.returned = Returned("str", Confirmation)]
    /\ UNCHANGED <<storeVars, turnVars, http, reports, neon>>

\* ------------------------------------------------------------------ neon start-up
\* The coroutines that may be inside a store operation at the same time.
\* They run on one event loop: one runs until it reaches an await.
Callers == {"c1", "c2"}

\* The statements of _ensure_schema, by the object each creates.
SchemaStatements ==
    <<"threads", "thread_items", "idx_thread_items_thread_id", "idx_threads_user_id",
      "html_reports", "idx_html_reports_user_id", "html_reports.image_url">>

\* CREATE ... IF NOT EXISTS and ALTER TABLE ... ADD COLUMN IF NOT EXISTS: the
\* object is there afterwards, once; the html_reports table comes with its
\* image_url column.
Execute(schema, statement) ==
    schema \cup {statement}
           \cup (IF statement = "html_reports" THEN {"html_reports.image_url"} ELSE {})

FullSchema == {SchemaStatements[k] : k \in 1..Len(SchemaStatements)}

\* One coroutine: the part of the operation it is in ("schema" inside
\* _ensure_schema, "query" after it), where it stands there, the statement
\* it executes next, and how many operations it has finished.
NoCaller ==
    [part |-> "idle", at |-> "idle", statement |-> 1, ops |-> 0,
     \* history only: _get_pool has returned, and the pool had been opened
     \* when it last did; the operation's query has run, and the schema and
     \* the number of finished schema creations at that moment; the
     \* operation ended with an exception
     got |-> FALSE, got_open |-> TRUE, queried |-> FALSE, schema_at_query |-> {},
     completed_at_query |-> 0, failed |-> FALSE]

\* _pool: not None once constructed; how many pools were constructed; open()
\* has completed.  The database: its schema objects, and how many times
\* _ensure_schema ran to its end.
NoNeon ==
    [exists |-> FALSE, constructed |-> 0, open |-> FALSE,
     schema |-> {}, completed |-> 0, callers |-> [c \in Callers |-> NoCaller]]

\* A check that takes the schema for created whatever the flag says.
SchemaEnsured_Always(flag) == TRUE

\* if self._initialized: return
SchemaEnsured(flag) == flag

\* _get_pool up to its await or its return, by the coroutine c: with no pool
\* yet one is constructed and c waits in open(); else the pool is returned as
\* it is.
GetPool(n, c) ==
    IF ~n.exists
    THEN [n EXCEPT !.exists = TRUE, !.constructed = @ + 1, !.callers[c].at = "open"]
    ELSE [n EXCEPT !.callers[c] =
            [@ EXCEPT !.at = "connection", !.got = TRUE, !.got_open = n.open]]

\* A store operation begins: await self._ensure_schema(), which returns at
\* once when the flag is set, and then the first _get_pool(), of
\* _ensure_schema or of the operation itself.  No await lies in between.
neon_begin(c) ==
    /\ neon.callers[c].part = "idle"
    /\ neon.callers[c].ops < MaxNeonOps
    /\ neon' = GetPool([neon EXCEPT !.callers[c] =
                  [@ EXCEPT !.part = IF SchemaEnsured(initialized) THEN "query" ELSE "schema",
                            !.statement = 1, !.queried = FALSE, !.failed = FALSE]], c)
    /\ UNCHANGED <<variant, threads, thread_items, cache, initialized, last, nops, run,
                   turnVars, http, toolVars>>

\* await _pool.open() completes and _get_pool returns.
neon_pool_opened(c) ==
    /\ neon.callers[c].at = "open"
    /\ neon' = [neon EXCEPT !.open = TRUE,
                            !.callers[c] = [@ EXCEPT !.at = "connection", !.got = TRUE,
                                                     !.got_open = TRUE]]
    /\ UNCHANGED <<variant, threads, thread_items, cache, initialized, last, nops, run,
                   turnVars, http, toolVars>>

\* async with pool.connection(): on a pool whose open() has not completed
\* the library raises or waits, and which is not this module's business.
neon_connection(c, raises) ==
    /\ neon.callers[c].at = "connection"
    /\ neon.open \/ raises
    /\ neon' =
         IF neon.open
         THEN [neon EXCEPT !.callers[c].at = "execute"]
         ELSE [neon EXCEPT !.callers[c] =
                  [@ EXCEPT !.part = "idle", !.at = "idle", !.failed = TRUE,
                            !.ops = @ + 1]]
    /\ UNCHANGED <<variant, threads, thread_items, cache, initialized, last, nops, run,
                   turnVars, http, toolVars>>

\* _ensure_schema: await conn.execute(...) of the next statement.
neon_ensure_schema_execute(c) ==
    /\ neon.callers[c].part = "schema"
    /\ neon.callers[c].at = "execute"
    /\ neon.callers[c].statement <= Len(SchemaStatements)
    /\ neon' = [neon EXCEPT
                  !.schema = Execute(@, SchemaStatements[neon.callers[c].statement]),
                  !.callers[c].statement = @ + 1]
    /\ UNCHANGED <<variant, threads, thread_items, cache, initialized, last, nops, run,
                   turnVars, http, toolVars>>

\* _ensure_schema: the connection is given back, self._initialized = True,
\* and the operation goes on to its own _get_pool().
neon_ensure_schema_return(c) ==
    /\ neon.callers[c].part = "schema"
    /\ neon.callers[c].at = "execute"
    /\ neon.callers[c].statement > Len(SchemaStatements)
    /\ initialized' = TRUE
    /\ neon' = GetPool([neon EXCEPT !.completed = @ + 1,
                                    !.callers[c].part = "query"], c)
    /\ UNCHANGED <<variant, threads, thread_items, cache, last, nops, run,
                   turnVars, http, toolVars>>

\* The operation's own statement runs and the operation returns.
neon_query(c) ==
    /\ neon.callers[c].part = "query"
    /\ neon.callers[c].at = "execute"
    /\ neon' = [neon EXCEPT !.callers[c] =
                  [@ EXCEPT !.part = "idle", !.at = "idle", !.ops = @ + 1,
                            !.queried = TRUE, !.schema_at_query = neon.schema,
                            !.completed_at_query = neon.completed]]
    /\ UNCHANGED <<variant, threads, thread_items, cache, initialized, last, nops, run,
                   turnVars, http, toolVars>>

\* The transport's own store calls: a new thread is saved, an item is added.
TurnThreads == {ThreadMetadata("t1", 1, [previous_response_id |-> None, note |-> "n"])}
GivenContents ==
    {<<TextPart(<<" ", "a">>), NoTextPart, TextPart(<<>>), TextPart(<<"b", " ">>)>>,
     <<NoTextPart>>}
GivenItems == {ThreadItem("i1", "user_message", content, 1) : content \in GivenContents}
                  \cup {ThreadItem("i1", "client_tool_call", <<TextPart(<<"a">>)>>, 1), NoItem}
TurnItems == {ThreadItem("i1", type, <<TextPart(<<"a">>)>>, 1) : type \in ItemTypes}
                 \cup {ThreadItem("i2", type, <<TextPart(<<"a">>)>>, 2) : type \in ItemTypes}

transport_create_thread(thread, ctx) ==
    /\ SelectThread(thread.id) = <<>>
    /\ Sql_save_thread(thread, ctx)

transport_add_item(thread_id, item) ==
    /\ SelectThread(thread_id) # <<>>
    /\ Sql_add_thread_item(thread_id, item)

InitTurn ==
    /\ variant = "sqlite"
    /\ threads = <<>>
    /\ thread_items = <<>>
    /\ cache = [t \in ThreadIds |-> NoState]
    /\ initialized = FALSE
    /\ last = NoCall
    /\ nops = 0
    /\ run = NoRun
    /\ thread_item_converter \in BOOLEAN
    /\ turn = [p \in Handlers |-> NoTurn]
    /\ started = 0
    /\ cont = [t \in ThreadIds |-> None]
    /\ http = NoHttp
    /\ reports = {}
    /\ tool = NoTool
    /\ neon = NoNeon

NextTurn ==
    \/ \E th \in TurnThreads : transport_create_thread(th, "u1")
    \/ \E t \in ThreadIds, it \in TurnItems : transport_add_item(t, it)
    \/ \E h \in Handlers, t \in ThreadIds, it \in GivenItems,
          ctx \in {"u1"}, raises \in BOOLEAN,
          converted \in {NoneValue, Converted}, events \in {0, MaxEvents} :
          respond_start(h, t, it, ctx, raises, converted, events)
    \/ \E h \in Handlers : respond_yield(h)
    \/ \E h \in Handlers : respond_abandon(h)
    \/ \E h \in Handlers, r \in RespIds \cup {None} : respond_finish(h, r)

SpecTurn == InitTurn /\ [][NextTurn]_vars

\* ------------------------------------------------------------------ specification
Init ==
    /\ variant \in Variants
    /\ threads = <<>>
    /\ thread_items = <<>>
    /\ cache = [t \in ThreadIds |-> NoState]
    /\ initialized = FALSE
    /\ last = NoCall
    /\ nops = 0
    /\ run = NoRun
    /\ thread_item_converter = TRUE
    /\ turn = [p \in Handlers |-> NoTurn]
    /\ started = 0
    /\ cont = [t \in ThreadIds |-> None]
    /\ http = NoHttp
    /\ reports = {}
    /\ tool = NoTool
    /\ neon = NoNeon

\* The cursors a listing is asked with: its identifiers, none, and one that no
\* listing ever holds.
Afters(ids) == ids \cup {NoId, "gone"}

Next ==
    \/ \E t \in ThreadIds : Sql_load_thread(t)
    \/ \E th \in ThreadObjects, ctx \in Contexts : Sql_save_thread(th, ctx)
    \/ \E l \in Limits, a \in Afters(ThreadIds), o \in Orders, ctx \in Contexts :
          Sql_load_threads(l, a, o, ctx)
    \/ \E t \in ThreadIds : Sql_delete_thread(t)
    \/ \E t \in ThreadIds, a \in Afters(ItemIds), l \in Limits, o \in Orders :
          Sql_load_thread_items(t, a, l, o)
    \/ \E t \in ThreadIds, it \in Items : Sql_add_thread_item(t, it)
    \/ \E t \in ThreadIds, it \in Items : Sql_save_item(t, it)
    \/ \E t \in ThreadIds, i \in ItemIds : Sql_load_item(t, i)
    \/ \E t \in ThreadIds, i \in ItemIds : Sql_delete_thread_item(t, i)
    \/ \E t \in ThreadIds : Neon_load_thread(t)
    \/ \E th \in ThreadObjects, ctx \in Contexts : Neon_save_thread(th, ctx)
    \/ \E l \in Limits, a \in Afters(ThreadIds), o \in Orders, ctx \in Contexts :
          Neon_load_threads(l, a, o, ctx)
    \/ \E t \in ThreadIds : Neon_delete_thread(t)
    \/ \E t \in ThreadIds, a \in Afters(ItemIds), l \in Limits, o \in Orders :
          Neon_load_thread_items(t, a, l, o)
    \/ \E t \in ThreadIds, it \in Items : Neon_add_thread_item(t, it)
    \/ \E t \in ThreadIds, it \in Items : Neon_save_item(t, it)
    \/ \E t \in ThreadIds, i \in ItemIds : Neon_load_item(t, i)
    \/ \E t \in ThreadIds, i \in ItemIds : Neon_delete_thread_item(t, i)
    \/ \E t \in ThreadIds : Mem_load_thread(t)
    \/ \E th \in ThreadObjects : Mem_save_thread(th)
    \/ \E l \in Limits, a \in Afters(ThreadIds), o \in Orders : Mem_load_threads(l, a, o)
    \/ \E t \in ThreadIds : Mem_delete_thread(t)
    \/ \E t \in ThreadIds, a \in Afters(ItemIds), l \in Limits, o \in Orders :
          Mem_load_thread_items(t, a, l, o)
    \/ \E t \in ThreadIds, it \in Items : Mem_add_thread_item(t, it)
    \/ \E t \in ThreadIds, it \in Items : Mem_save_item(t, it)
    \/ \E t \in ThreadIds, i \in ItemIds : Mem_load_item(t, i)
    \/ \E t \in ThreadIds, i \in ItemIds : Mem_delete_thread_item(t, i)
    \/ Mem_restart
    \/ \E a \in AttachmentIds : Sql_save_attachment(a)
    \/ \E a \in AttachmentIds : Sql_load_attachment(a)
    \/ \E a \in AttachmentIds : Sql_delete_attachment(a)
    \/ \E a \in AttachmentIds : Neon_save_attachment(a)
    \/ \E a \in AttachmentIds : Neon_load_attachment(a)
    \/ \E a \in AttachmentIds : Neon_delete_attachment(a)
    \/ \E a \in AttachmentIds : Mem_save_attachment(a)
    \/ \E a \in AttachmentIds : Mem_load_attachment(a)
    \/ \E a \in AttachmentIds : Mem_delete_attachment(a)

Spec == Init /\ [][Next]_vars

\* ------------------------------------------------------------------ traccar specification
InitTraccar ==
    /\ variant = "sqlite"
    /\ threads = <<>>
    /\ thread_items = <<>>
    /\ cache = [t \in ThreadIds |-> NoState]
    /\ initialized = FALSE
    /\ last = NoCall
    /\ nops = 0
    /\ run = NoRun
    /\ thread_item_converter = TRUE
    /\ turn = [p \in Handlers |-> NoTurn]
    /\ started = 0
    /\ cont = [t \in ThreadIds |-> None]
    /\ http = NoHttp
    /\ reports = {}
    /\ tool = NoTool
    /\ neon = NoNeon

NextTraccar ==
    \/ \E path \in {<<"api/session">>, <<"api/positions">>}, request \in Requests,
          device_id \in DeviceIds, from_date \in DateArgs, to_date \in DateArgs,
          status \in Statuses :
          traccar_get(path, request, device_id, from_date, to_date, status)
    \/ \E request \in Requests, id \in GeofenceIds \cup {None}, name \in Names,
          description \in Descriptions, area \in Areas, status \in Statuses :
          traccar_put(<<"api/geofences/", "7">>, request, id, name, description, area, status)
    \/ \E request \in Requests, name \in Names, description \in Descriptions,
          area \in Areas, status \in Statuses :
          traccar_post(<<"api/geofences">>, request, name, description, area, status)
    \/ \E request \in Requests, geofence_id \in GeofenceIds, area \in Areas \ {None},
          name \in Names \ {None}, description \in Descriptions, status \in Statuses :
          update_geofence(request, geofence_id, area, name, description, status)
    \/ \E request \in Requests, area \in Areas \ {None}, name \in Names \ {None},
          description \in Descriptions, status \in Statuses :
          create_geofence(request, area, name, description, status)
    \/ \E value \in DateTimes \cup OtherValues \cup {NoneValue} : format_date(value)

SpecTraccar == InitTraccar /\ [][NextTraccar]_vars

\* ------------------------------------------------------------------ tools specification
InitTools ==
    /\ variant = "sqlite"
    /\ threads = <<>>
    /\ thread_items = <<>>
    /\ cache = [t \in ThreadIds |-> NoState]
    /\ initialized = FALSE
    /\ last = NoCall
    /\ nops = 0
    /\ run = NoRun
    /\ thread_item_converter = TRUE
    /\ turn = [p \in Handlers |-> NoTurn]
    /\ started = 0
    /\ cont = [t \in ThreadIds |-> None]
    /\ http = NoHttp
    /\ reports = {}
    /\ tool = NoTool
    /\ neon = NoNeon

NextTools ==
    \/ \E t \in ThreadIds, html \in Htmls, writable \in BOOLEAN : show_html(t, html, writable)
    \/ \E t \in ThreadIds, ctx \in Contexts, q \in Questions, ses_ok \in BOOLEAN :
          forward_to_real_agent(t, ctx, q, ses_ok)

SpecTools == InitTools /\ [][NextTools]_vars

\* ------------------------------------------------------------------ neon start-up specification
InitNeon ==
    /\ variant = "neon"
    /\ threads = <<>>
    /\ thread_items = <<>>
    /\ cache = [t \in ThreadIds |-> NoState]
    /\ initialized = FALSE
    /\ last = NoCall
    /\ nops = 0
    /\ run = NoRun
    /\ thread_item_converter = TRUE
    /\ turn = [p \in Handlers |-> NoTurn]
    /\ started = 0
    /\ cont = [t \in ThreadIds |-> None]
    /\ http = NoHttp
    /\ reports = {}
    /\ tool = NoTool
    /\ neon = NoNeon

NextNeon ==
    \/ \E c \in Callers : neon_begin(c)
    \/ \E c \in Callers : neon_pool_opened(c)
    \/ \E c \in Callers, raises \in BOOLEAN : neon_connection(c, raises)
    \/ \E c \in Callers : neon_ensure_schema_execute(c)
    \/ \E c \in Callers : neon_ensure_schema_return(c)
    \/ \E c \in Callers : neon_query(c)

SpecNeon == InitNeon /\ [][NextNeon]_vars

\* ------------------------------------------------------------------ store claims
\* What the store answers now to load_thread and to a load_thread_items call
\* with no cursor and a limit above the number of items.
LoadThreadAnswer(thread_id) ==
    CASE variant = "memory" ->
            IF Mem_load_thread_state(thread_id) = NoState THEN NoThread
            ELSE Mem_load_thread_state(thread_id).thread
      [] variant = "sqlite" -> Sql_load_thread_result(thread_id).thread
      [] OTHER -> Neon_load_thread_result(thread_id).thread
VisibleItems(thread_id) ==
    CASE variant = "memory" ->
            Mem_load_thread_items_page(cache[thread_id].items, NoId,
                Len(cache[thread_id].items) + 1, "asc").data
      [] variant = "sqlite" ->
            Sql_load_thread_items_page(thread_id, NoId, Len(thread_items) + 1, "asc").data
      [] OTHER ->
            Neon_load_thread_items_page(thread_id, NoId, Len(thread_items) + 1, "asc").data

\* C3: load_thread fails with NotFound whenever no thread with the id is
\* stored, whatever store calls came before, and returns a stored thread
\* (with or without items) normally.
C3_LoadThreadNotFound ==
    last.op = "load_thread" =>
        IF SelectThread(last.tid) = <<>>
        THEN last.err = "NotFound"
        ELSE last.err = "ok" /\ last.thread = SelectThread(last.tid)[1].data

\* C4: after add_thread_item was called twice in a row for one stored thread with
\* the same item identifier, load_thread_items shows exactly one item with
\* that identifier, and it is the item of the second call.
C4_AddTwiceOneItem ==
    (last.op = "add_thread_item" /\ last.again /\ last.stored) =>
        LET xs == VisibleItems(last.tid)
        IN /\ Cardinality({i \in 1..Len(xs) : xs[i].id = last.item.id}) = 1
           /\ \A i \in 1..Len(xs) : xs[i].id = last.item.id => xs[i] = last.item

\* C5: after delete_thread of a stored thread the thread and all its items
\* are gone: load_thread
\* fails with NotFound, load_thread_items is empty, and no item row of the
\* thread is left that a later save of the same thread id could show again.
C5_DeleteThreadRemovesAll ==
    (last.op = "delete_thread" /\ last.stored) =>
        /\ LoadThreadAnswer(last.tid) = NoThread
        /\ VisibleItems(last.tid) = <<>>
        /\ \A i \in 1..Len(thread_items) : thread_items[i].thread_id # last.tid

\* C6: in the cached store every mutation has reached SQL when the call
\* returns, a save_item that replaces a cached item included.
C6_WriteThrough ==
    variant = "memory" =>
        /\ last.op = "save_thread" =>
              \E i \in 1..Len(threads) : threads[i].data = last.thread
        /\ (last.op \in {"add_thread_item", "save_item"} /\ last.stored) =>
              \E i \in 1..Len(thread_items) : thread_items[i] = ItemRow(last.tid, last.item)
        /\ last.op = "delete_thread_item" =>
              \A i \in 1..Len(thread_items) : thread_items[i].id # last.item.id
        /\ last.op = "delete_thread" => SelectThread(last.tid) = <<>>

\* C7: in the cached store the first read after the cache was emptied
\* returns what SQL holds, whichever read it is: load_thread_items the
\* thread's stored items, load_item a stored item, load_thread a stored thread.
C7_ReadFallsBackToSql ==
    (variant = "memory" /\ last.fresh) =>
        /\ (/\ last.op = "load_thread_items"
            /\ last.after = NoId
            /\ last.limit >= Len(SelectItems(last.tid))) =>
              last.page.data = SortByCreatedAt(SelectItems(last.tid), last.order = "desc")
        /\ last.op = "load_item" =>
              \A i \in 1..Len(thread_items) :
                  (thread_items[i].id = last.item.id /\ thread_items[i].thread_id = last.tid)
                      => (last.err = "ok" /\ last.found = thread_items[i].data)
        /\ (last.op = "load_thread" /\ SelectThread(last.tid) # <<>>) =>
              (last.err = "ok" /\ last.thread = SelectThread(last.tid)[1].data)

\* The whole listing a load_threads or load_thread_items call pages through,
\* in the order asked for.
ListingOf(call) ==
    IF call.op = "load_threads"
    THEN SortByCreatedAt(
            IF variant = "memory" THEN SelectAllThreads
            ELSE IF call.ctx \in Users THEN SelectThreadsOfUser(call.ctx) ELSE <<>>,
            call.order = "desc")
    ELSE SortByCreatedAt(
            IF variant = "memory" THEN cache[call.tid].items ELSE SelectItems(call.tid),
            call.order = "desc")
DistinctIds(xs) == \A i, j \in 1..Len(xs) : xs[i].id = xs[j].id => i = j

\* C8: pagination of load_threads and load_thread_items over the listing xs
\* (identifiers distinct): without a cursor the page is the first `limit`
\* elements and has_more tells whether more than `limit` exist; with `after`
\* the id of the k-th element the page is the next `limit` elements, none of
\* the first k; after the last element the page is empty, has_more is false
\* and there is no cursor.
C8_Pagination ==
    (last.op \in {"load_threads", "load_thread_items"} /\ DistinctIds(ListingOf(last))) =>
        LET xs == ListingOf(last)
            pg == last.page
        IN /\ last.after = NoId =>
                /\ pg.data = Slice(xs, 1, last.limit)
                /\ pg.has_more = (Len(xs) > last.limit)
           /\ \A k \in 1..Len(xs) : last.after = xs[k].id =>
                /\ pg.data = Slice(xs, k + 1, k + last.limit)
                /\ pg.has_more = (Len(xs) - k > last.limit)
                /\ \A i \in 1..Len(pg.data), j \in 1..k : pg.data[i] # xs[j]
           /\ (xs # <<>> /\ last.after = xs[Len(xs)].id) =>
                pg = Page(<<>>, FALSE, NoId)
           /\ pg.has_more => (pg.data # <<>> /\ pg.after = pg.data[Len(pg.data)].id)
C8_Witness ==
    /\ last.op = "load_thread_items"
    /\ last.after # NoId
    /\ last.page.data # <<>>
    /\ last.page.data[1].id # last.after

C10_OwnerScoped ==
    (last.op = "load_threads" /\ variant \in {"sqlite", "neon"}) =>
        /\ last.ctx \notin Users => last.page = Page(<<>>, FALSE, NoId)
        /\ \A i \in 1..Len(last.page.data) :
              \E r \in 1..Len(threads) :
                  /\ threads[r].id = last.page.data[i].id
                  /\ threads[r].user_id = last.ctx
C10_Witness ==
    /\ last.op = "load_threads"
    /\ variant \in {"sqlite", "neon"}
    /\ last.page.data # <<>>
    /\ \E r \in 1..Len(threads) : threads[r].user_id \notin {last.ctx, None}

\* ------------------------------------------------------------------ chat claims
StoredThread(thread_id) == SelectThread(thread_id)[1].data

\* C1: when a turn finishes with a continuation identifier R, R is in the
\* stored thread's metadata under previous_response_id once the turn has
\* ended, and a turn on that thread that starts after it and invokes the
\* agent passes R as the previous response.
C1_ContinuationPersisted ==
    /\ \A t \in ThreadIds : cont[t] # None =>
            /\ SelectThread(t) # <<>>
            /\ PreviousResponseId(StoredThread(t)) = cont[t]
    /\ \A h \in Handlers : (turn[h].invoked /\ turn[h].seen # None) =>
            turn[h].previous_response_id = turn[h].seen
C1_Witness ==
    \E h \in Handlers :
        /\ turn[h].invoked
        /\ turn[h].seen \in RespIds
        /\ turn[h].previous_response_id = turn[h].seen
        /\ PreviousResponseId(StoredThread(turn[h].thread.id)) = turn[h].seen

\* C2: a turn whose target item is a tool completion, whether the transport
\* supplied it or it was resolved as the latest stored item, produces no
\* events and never invokes the model.
C2_ToolCompletionSilent ==
    \A h \in Handlers : turn[h].target.type = "client_tool_call" =>
        /\ ~turn[h].invoked
        /\ turn[h].yielded = <<>>
        /\ turn[h].pc = "ended"
C2_Witness ==
    /\ \E h \in Handlers :
        /\ turn[h].pc = "ended"
        /\ turn[h].item = NoItem
        /\ turn[h].target.type = "client_tool_call"
    /\ \E h \in Handlers :
        /\ turn[h].pc = "ended"
        /\ turn[h].item # NoItem
        /\ turn[h].target.type = "client_tool_call"

\* C11: every stored thread item's thread_id is the identifier of a stored
\* thread, in every state any sequence of store calls can reach.
C11_ItemsReferenceThreads ==
    \A i \in 1..Len(thread_items) : SelectThread(thread_items[i].thread_id) # <<>>

\* C12: once the turns on a thread have completed without overlapping, the
\* previous_response_id of the stored thread is the continuation identifier
\* of the most recent run on that thread that returned one, and is absent
\* when no run has returned one.
C12_LatestContinuation ==
    (\A h \in Handlers : turn[h].pc # "streaming" /\ ~turn[h].overlap) =>
        \A t \in ThreadIds : SelectThread(t) # <<>> =>
            PreviousResponseId(StoredThread(t)) = cont[t]
C12_Witness ==
    /\ \A h \in Handlers : turn[h].pc # "streaming" /\ ~turn[h].overlap
    /\ started = 2
    /\ \E h \in Handlers :
        /\ turn[h].invoked
        /\ turn[h].seen \in RespIds
        /\ cont[turn[h].thread.id] \in RespIds \ {turn[h].seen}
        /\ PreviousResponseId(StoredThread(turn[h].thread.id)) = cont[turn[h].thread.id]

\* C13: a turn that is given no item takes the thread's most recent item as
\* its target; when the store raises or the thread has no item the turn ends
\* normally with no event and no model invocation.
C13_LatestItemOrNothing ==
    \A h \in Handlers : (turn[h].pc # "idle" /\ turn[h].item = NoItem) =>
        /\ ~turn[h].raised => turn[h].target = turn[h].newest
        /\ (turn[h].raised \/ turn[h].newest = NoItem) =>
              /\ turn[h].target = NoItem
              /\ turn[h].pc = "ended"
              /\ ~turn[h].invoked
              /\ turn[h].yielded = <<>>
C13_Witness ==
    /\ \E h \in Handlers :
        /\ turn[h].item = NoItem
        /\ turn[h].invoked
        /\ turn[h].target.id = "i2"
        /\ Len(SelectItems(turn[h].thread.id)) = 2
    /\ \E h \in Handlers :
        /\ turn[h].pc = "ended"
        /\ turn[h].item = NoItem
        /\ turn[h].raised
        /\ turn[h].newest # NoItem
        /\ turn[h].target = NoItem

\* C14: save_thread upserts by identifier: the threads table never holds two
\* rows with one id, and right after save_thread the one row with the id and
\* the answer of load_thread are the thread that call was given.
C14_SaveThreadUpserts ==
    /\ \A i, j \in 1..Len(threads) : threads[i].id = threads[j].id => i = j
    /\ last.op = "save_thread" =>
          /\ SelectThread(last.tid) # <<>>
          /\ SelectThread(last.tid)[1].data = last.thread
          /\ LoadThreadAnswer(last.tid) = last.thread
C14_Witness ==
    /\ last.op = "save_thread"
    /\ last.stored
    /\ Len(threads) = 2
    /\ LoadThreadAnswer(last.tid) = last.thread

AttachmentOps == {"save_attachment", "load_attachment", "delete_attachment"}

\* C15: every attachment call, in each of the three stores, fails with
\* NotImplementedError and leaves the stored threads and items, and the
\* cache, as they were.
C15_AttachmentsRejected ==
    [][last'.op \in AttachmentOps =>
          /\ last'.err = "NotImplementedError"
          /\ UNCHANGED <<threads, thread_items, cache>>]_vars
C15_Witness ==
    /\ last.op = "save_attachment"
    /\ last.err = "NotImplementedError"
    /\ variant = "sqlite"
    /\ threads # <<>>
    /\ thread_items # <<>>

\* ------------------------------------------------------------------ traccar claims
ClientOps == {"get", "put", "post", "update_geofence", "create_geofence"}

\* The product domains of the routing rule: those of the code's list and the
\* two the rule names as examples.
RoutedDomains ==
    {FleetmapOrigins[i] : i \in 1..Len(FleetmapOrigins)}
        \cup {"https://fleetmap.io", "https://plataforma.ubisat.cl"}

\* C16: a request whose Origin header equals or starts with one of the
\* product domains is sent to the dedicated server; a request with any other
\* Origin, or with none, is sent to the default server.
C16_OriginRouting ==
    http.op \in ClientOps =>
        LET h == http.request.headers
            routed == /\ http.request.present
                      /\ "origin" \in DOMAIN h
                      /\ \E d \in RoutedDomains : StartsWith(h["origin"], <<d>>)
        IN http.out.url[1] = IF routed THEN "http://gps.fleetmap.pt"
                                       ELSE "http://gps.frotaweb.com"

\* C17: the outbound Cookie header is JSESSIONID=<x-fleet-session> when the
\* request has that header, else the request's Cookie header as it is, and
\* there is no Cookie header when the request has neither.
C17_CredentialPrecedence ==
    http.op \in ClientOps =>
        LET h == http.request.headers
            out == http.out.headers
        IN IF /\ http.request.present
              /\ "x-fleet-session" \in DOMAIN h
              /\ h["x-fleet-session"] # <<"null">>
           THEN /\ "Cookie" \in DOMAIN out
                /\ out["Cookie"] = <<"JSESSIONID=">> \o h["x-fleet-session"]
           ELSE IF http.request.present /\ "cookie" \in DOMAIN h
           THEN /\ "Cookie" \in DOMAIN out
                /\ out["Cookie"] = h["cookie"]
           ELSE "Cookie" \notin DOMAIN out

\* The minute of the month a datetime stands for, in UTC.
Instant(value) == value.day * 1440 + value.hour * 60 + value.minute - value.offset
ParseDigit(c) == CHOOSE n \in 0..9 : Digit(n) = c
Parse2(text, i) == ParseDigit(text[i]) * 10 + ParseDigit(text[i + 1])

\* C18: a datetime is printed as YYYY-MM-DDTHH:MM:SSZ in UTC, a naive one
\* taken as UTC, so that every datetime of the same instant gives the same
\* text; a value that is no datetime is returned as it is.
C18_FormatDate ==
    http.op = "format_date" =>
        IF http.value.kind = "datetime"
        THEN LET text == http.result.text
             IN /\ http.result.kind = "str"
                /\ Len(text) = 20
                /\ <<text[5], text[8], text[11], text[14], text[17], text[20]>>
                      = <<"-", "-", "T", ":", ":", "Z">>
                /\ Parse2(text, 1) * 100 + Parse2(text, 3) = http.value.year
                /\ Parse2(text, 6) = http.value.month
                /\ Parse2(text, 9) * 1440 + Parse2(text, 12) * 60 + Parse2(text, 15)
                      = Instant(http.value)
                /\ Parse2(text, 18) = http.value.second
                /\ \A v \in DateTimes :
                      (Instant(v) = Instant(http.value) /\ v.second = http.value.second)
                          => FormatDate(v) = http.result
        ELSE http.result = http.value
C18_Witness ==
    /\ http.op = "format_date"
    /\ http.value.kind = "datetime"
    /\ http.value.aware
    /\ http.value.offset = 330
    /\ http.value.hour = 0
    /\ Parse2(http.result.text, 9) = http.value.day - 1

\* C19: update_geofence called with an area and a name and no description
\* sends a PUT whose JSON body has exactly the keys id, area and name, with
\* the values it was given.
C19_UpdateGeofenceBody ==
    (http.op = "update_geofence" /\ http.args.description = None) =>
        /\ http.out.method = "PUT"
        /\ http.out.has_body
        /\ DOMAIN http.out.body = {"id", "area", "name"}
        /\ http.out.body["id"] = http.args.id
        /\ http.out.body["area"] = http.args.area
        /\ http.out.body["name"] = http.args.name
C19_Witness ==
    /\ http.op = "update_geofence"
    /\ http.args.description = None
    /\ http.out.method = "PUT"
    /\ DOMAIN http.out.body = {"id", "area", "name"}

\* C20: the body post builds, for create_geofence too, has exactly the
\* fields among name, description and area that were supplied; a body of put
\* has an id.
C20_PostBodyOnlySupplied ==
    /\ http.op \in {"post", "create_geofence"} =>
          DOMAIN http.out.body =
              {k \in {"name", "description", "area"} : http.args[k] # None}
    /\ http.op \in {"put", "update_geofence"} => "id" \in DOMAIN http.out.body

\* ------------------------------------------------------------------ tool claims
\* The number of the first script block a JavaScript parser rejects, 0 when
\* every non-empty block parses.
FirstSyntaxError(html) ==
    IF \E k \in 1..Len(html) : html[k] = "syntax_error"
    THEN CHOOSE k \in 1..Len(html) :
            /\ html[k] = "syntax_error"
            /\ \A j \in 1..(k - 1) : html[j] # "syntax_error"
    ELSE 0

\* C21: show_html checks every non-empty script block before anything else:
\* when some block does not parse it returns an error dictionary, saves no
\* file and records no client tool call; a document whose blocks all parse
\* goes on to be saved.  Stated of the calls whose file can be written.
C21_ScriptsValidatedFirst ==
    (tool.op = "show_html" /\ tool.writable) =>
        IF FirstSyntaxError(tool.html) # 0
        THEN /\ tool.returned.key = "error"
             /\ ~tool.saved
             /\ tool.client_tool_call = NoClientToolCall
        ELSE tool.saved

\* C22: forward_to_real_agent takes "unknown" for the user's email whenever
\* the session lookup gives none (no request, an upstream error, a session
\* without an email); the mail is sent all the same and the confirmation
\* string returned.
C22_UnknownEmailStillSent ==
    (/\ tool.op = "forward_to_real_agent"
     /\ tool.ctx \in {"no_request", "http_error", "no_session", "no_email"}
     /\ tool.ses_ok)
    => /\ tool.raised = None
       /\ tool.sent
       /\ tool.email.user_email = "unknown"
       /\ tool.returned = Returned("str", Confirmation)

\* C23: show_html raises nothing: it returns {"result": "success"}, or
\* {"error": "Internal error rendering HTML"} when something goes wrong,
\* such as the file not being writable.
C23_ShowHtmlNeverRaises ==
    tool.op = "show_html" =>
        /\ tool.raised = None
        /\ IF tool.writable
           THEN tool.returned = Returned("result", "success")
           ELSE tool.returned = Returned("error", "Internal error rendering HTML")

\* ------------------------------------------------------------------ turn claims, continued
\* C24: within a turn the events are forwarded in the order the run
\* produces them and the new continuation identifier is saved only after
\* every one of them was forwarded; a turn that stops inside the stream has
\* saved nothing, and its stopping leaves the stored thread as it was.
C24_SaveAfterStream ==
    /\ [](\A h \in Handlers :
            /\ \A i \in 1..Len(turn[h].yielded) : turn[h].yielded[i] = i
            /\ turn[h].saved # None =>
                  /\ turn[h].pending = <<>>
                  /\ Len(turn[h].yielded) = turn[h].produced
            /\ turn[h].pc = "abandoned" => turn[h].saved = None)
    /\ [][\A h \in Handlers :
            (turn[h].pc = "streaming" /\ turn'[h].pc = "abandoned") => threads' = threads]_vars
C24_Witness ==
    \E h \in Handlers, g \in Handlers :
        /\ turn[h].saved \in RespIds
        /\ turn[h].yielded = <<1, 2>>
        /\ turn[g].pc = "abandoned"
        /\ turn[g].yielded = <<1>>
        /\ turn[g].saved = None

\* C25: two turns on one thread that overlap may both start from the same
\* previous_response_id; both save, and the stored identifier is the one of
\* the save that ran last.
C25_LastSaveWins ==
    \A h \in Handlers : \A g \in Handlers \ {h} :
        (/\ turn[h].pc = "ended" /\ turn[g].pc = "ended"
         /\ turn[h].saved # None /\ turn[g].saved # None
         /\ turn[h].thread.id = turn[g].thread.id
         /\ turn[g].overlap)
        => /\ SelectThread(turn[h].thread.id) # <<>>
           /\ PreviousResponseId(StoredThread(turn[h].thread.id)) \in {turn[h].saved, turn[g].saved}
           /\ PreviousResponseId(StoredThread(turn[h].thread.id)) = cont[turn[h].thread.id]
C25_Witness ==
    \E h \in Handlers : \E g \in Handlers \ {h} :
        /\ turn[h].pc = "ended" /\ turn[g].pc = "ended"
        /\ turn[g].overlap /\ ~turn[h].overlap
        /\ turn[h].invoked /\ turn[g].invoked
        /\ turn[h].previous_response_id = turn[g].previous_response_id
        /\ turn[h].saved \in RespIds
        /\ turn[g].saved \in RespIds \ {turn[h].saved}
        /\ PreviousResponseId(StoredThread(turn[h].thread.id)) = turn[h].saved
        /\ cont[turn[h].thread.id] = turn[h].saved

HasText(part) == part.has_text /\ part.text # <<>>

\* The texts of ts[1..n] with one space between neighbours.
RECURSIVE SpaceJoined(_, _)
SpaceJoined(ts, n) ==
    IF n = 0 THEN <<>>
    ELSE IF n = 1 THEN ts[1].text
    ELSE SpaceJoined(ts, n - 1) \o <<" ">> \o ts[n].text

\* r is s without the spaces at its two ends.
IsTrimOf(r, s) ==
    /\ r = <<>> \/ (r[1] # " " /\ r[Len(r)] # " ")
    /\ \E i \in 0..Len(s) :
          /\ i + Len(r) <= Len(s)
          /\ SubSeq(s, i + 1, i + Len(r)) = r
          /\ \A k \in 1..Len(s) : (k <= i \/ k > i + Len(r)) => s[k] = " "

\* C26: a turn whose target yields no model input (the converter returns
\* nothing, or there is no converter and the item is no user message) ends
\* with no event and no invocation; with no converter a user message is
\* passed as the texts of its parts that carry text, joined by single spaces
\* and trimmed.
C26_NoInputNoInvocation ==
    \A h \in Handlers :
        (turn[h].pc # "idle" /\ turn[h].target # NoItem
            /\ turn[h].target.type # "client_tool_call") =>
        /\ (thread_item_converter /\ turn[h].converted = NoneValue) =>
              ~turn[h].invoked /\ turn[h].yielded = <<>> /\ turn[h].pc = "ended"
        /\ (~thread_item_converter /\ turn[h].target.type # "user_message") =>
              ~turn[h].invoked /\ turn[h].yielded = <<>> /\ turn[h].pc = "ended"
        /\ (~thread_item_converter /\ turn[h].target.type = "user_message") =>
              /\ turn[h].invoked
              /\ turn[h].input.kind = "text"
              /\ IsTrimOf(turn[h].input.text,
                          SpaceJoined(SelectSeq(turn[h].target.content, HasText),
                                      Len(SelectSeq(turn[h].target.content, HasText))))
C26_Witness ==
    /\ ~thread_item_converter
    /\ \E h \in Handlers, g \in Handlers :
        /\ turn[h].invoked
        /\ turn[h].input = Text(<<"a", " ", "b">>)
        /\ Len(turn[h].target.content) = 4
        /\ turn[g].pc = "ended" /\ ~turn[g].invoked
        /\ turn[g].target.type = "assistant_message"

\* ------------------------------------------------------------------ neon start-up claims
\* C27: every neon store operation runs its statement only after the schema
\* creation has run to its end at least once, however the first calls
\* interleave; and creating the schema again leaves it as it was.
C27_SchemaBeforeQuery ==
    /\ \A c \in Callers : neon.callers[c].queried =>
          /\ neon.callers[c].completed_at_query >= 1
          /\ neon.callers[c].schema_at_query = FullSchema
    /\ neon.completed >= 1 => neon.schema = FullSchema
C27_Witness ==
    \E c \in Callers : \E d \in Callers \ {c} :
        /\ neon.callers[c].queried
        /\ neon.callers[c].completed_at_query = 1
        /\ neon.callers[d].part = "schema"
        /\ neon.callers[d].statement \in 2..Len(SchemaStatements)
        /\ neon.completed = 1

\* C28: however the first callers of _get_pool interleave, one pool is
\* constructed, and a caller gets it only after its open() has completed.
C28_OnePoolOpenedFirst ==
    /\ neon.constructed <= 1
    /\ \A c \in Callers : neon.callers[c].got => neon.callers[c].got_open

C30_CacheMatchesSql ==
    variant = "memory" =>
        \A t \in ThreadIds : Cached(t) =>
            /\ DistinctIds(cache[t].items)
            /\ {cache[t].items[i] : i \in 1..Len(cache[t].items)}
                  = {SelectItems(t)[i] : i \in 1..Len(SelectItems(t))}

\* ------------------------------------------------------------------ store claims: frame effects
\* C31: delete_thread_item(t, item_id) leaves the items of every other
\* thread as they were, also when item_id names an item of another thread.
C31_DeleteItemOtherThreads ==
    [][(nops' = nops + 1 /\ last'.op = "delete_thread_item") =>
          \A t \in ThreadIds \ {last'.tid} : VisibleItems(t)' = VisibleItems(t)]_vars

\* What the store answers now to load_item: the item, or NoItem for NotFound.
LoadItemAnswer(thread_id, item_id) ==
    CASE variant = "memory" -> FirstWithId(cache[thread_id].items, item_id)
      [] variant = "sqlite" -> FirstWithId(SelectItems(thread_id), item_id)
      [] OTHER -> FirstWithId(RowData(SelectSeq(thread_items,
                      LAMBDA r : r.id = item_id /\ r.thread_id = thread_id)), item_id)

\* C32: once add_thread_item(t, item) or save_item(t, item) has returned,
\* load_item(t, item.id) gives that item and load_thread_items(t) lists it,
\* in every store, whatever was stored before, an item with the same
\* identifier under another thread included.
C32_ReadYourWrites ==
    (last.op \in {"add_thread_item", "save_item"} /\ last.err = "ok") =>
        /\ LoadItemAnswer(last.tid, last.item.id) = last.item
        /\ \E i \in 1..Len(VisibleItems(last.tid)) : VisibleItems(last.tid)[i] = last.item

\* C33: in the SQLite and the Postgres store a thread that load_threads
\* lists for user u, having been saved under u's identity, is still listed
\* for u after any later save_thread of that thread.  Stated of the later
\* saves that are not made under another user's identity.
C33_OwnerKeptAcrossSaves ==
    [][(nops' = nops + 1 /\ last'.op = "save_thread" /\ variant \in {"sqlite", "neon"}) =>
          \A u \in Users :
              (/\ last'.ctx \notin Users \ {u}
               /\ \E i \in 1..Len(SelectThreadsOfUser(u)) :
                     SelectThreadsOfUser(u)[i].id = last'.tid)
              => (\E i \in 1..Len(SelectThreadsOfUser(u)') :
                    SelectThreadsOfUser(u)'[i].id = last'.tid)]_vars

\* C34: save_thread of a thread that is stored already leaves the thread's
\* items as they were, in every store: load_thread_items lists the same
\* items before and after.
C34_SaveThreadKeepsItems ==
    [][\A t \in ThreadIds :
          (nops' = nops + 1 /\ last'.op = "save_thread" /\ last'.tid = t /\ last'.stored)
          => VisibleItems(t)' = VisibleItems(t)]_vars
C34_Witness ==
    /\ last.op = "save_thread"
    /\ last.stored
    /\ variant = "sqlite"
    /\ VisibleItems(last.tid) # <<>>

\* ------------------------------------------------------------------ turn claims: frame effects
\* C35: a turn that ends early (no target item, a tool completion, no agent
\* input) or whose run exposes no continuation identifier writes nothing to
\* the store: no step of such a call changes the stored threads or items.
C35_NoWriteWithoutContinuation ==
    [][\A h \in Handlers :
          (turn'[h] # turn[h] /\ turn'[h].saved = None) =>
              /\ threads' = threads
              /\ thread_items' = thread_items]_vars
C35_Witness ==
    \E h \in Handlers : \E g \in Handlers \ {h} :
        /\ turn[h].pc = "ended" /\ ~turn[h].invoked
        /\ turn[g].pc = "ended" /\ turn[g].invoked
        /\ turn[g].yielded = <<1, 2>>
        /\ turn[g].saved = None
        /\ SelectThread(turn[g].thread.id) # <<>>

\* C36: the end-of-turn save changes the previous_response_id key of the
\* thread's metadata and nothing else: what is stored is the thread the turn
\* was given, every other metadata key with the value it had.
C36_OnlyContinuationChanges ==
    [][\A h \in Handlers :
          (turn[h].pc = "streaming" /\ turn'[h].pc = "ended" /\ turn'[h].saved # None) =>
              /\ SelectThread(turn[h].thread.id)' # <<>>
              /\ StoredThread(turn[h].thread.id)' =
                    [turn[h].thread EXCEPT !.metadata.previous_response_id = turn'[h].saved]
              /\ StoredThread(turn[h].thread.id)'.metadata.note = turn[h].thread.metadata.note]_vars
C36_Witness ==
    \E h \in Handlers :
        /\ turn[h].pc = "ended"
        /\ turn[h].saved \in RespIds
        /\ turn[h].thread.metadata.note = "n"
        /\ StoredThread(turn[h].thread.id).metadata =
              [previous_response_id |-> turn[h].saved, note |-> "n"]

\* C37: when `after` names an identifier that is not in the listing, load_threads
\* and load_thread_items return without error the page that starts at the
\* first element of the sorted listing: its first `limit` elements, has_more
\* telling whether more exist, and not an empty page when the listing has
\* elements.
C37_UnknownCursorFromStart ==
    (/\ last.op \in {"load_threads", "load_thread_items"}
     /\ last.after # NoId
     /\ \A i \in 1..Len(ListingOf(last)) : ListingOf(last)[i].id # last.after) =>
        /\ last.err = "ok"
        /\ last.page.data = Slice(ListingOf(last), 1, last.limit)
        /\ last.page.has_more = (Len(ListingOf(last)) > last.limit)
        /\ ListingOf(last) # <<>> =>
              /\ last.page.data # <<>>
              /\ last.page.data[1] = ListingOf(last)[1]
C37_Witness ==
    /\ last.op \in {"load_threads", "load_thread_items"}
    /\ last.after # NoId
    /\ \A i \in 1..Len(ListingOf(last)) : ListingOf(last)[i].id # last.after
    /\ Len(ListingOf(last)) = 2
    /\ last.limit = 1
    /\ last.page.data = <<ListingOf(last)[1]>>
    /\ last.page.has_more

\* An item with the identifier is held under the thread: a thread_items row
\* with that id and thread_id, or for the memory store an element of the
\* thread's cached list.
StoredUnder(thread_id, item_id) ==
    IF variant = "memory"
    THEN /\ Cached(thread_id)
         /\ \E i \in 1..Len(cache[thread_id].items) : cache[thread_id].items[i].id = item_id
    ELSE \E i \in 1..Len(thread_items) :
            thread_items[i].id = item_id /\ thread_items[i].thread_id = thread_id

\* C38: load_item(t, item_id) fails with NotFound whenever no item with that
\* identifier is stored under thread t, in every store variant, also when an
\* item with that identifier is stored under another thread.
C38_LoadItemNotFound ==
    (last.op = "load_item" /\ ~StoredUnder(last.tid, last.item.id)) =>
        last.err = "NotFound"
C38_Witness ==
    /\ last.op = "load_item"
    /\ last.err = "NotFound"
    /\ ~StoredUnder(last.tid, last.item.id)
    /\ \E t \in ThreadIds \ {last.tid} : StoredUnder(t, last.item.id)

====
